---- MODULE Spec2Model ----
(***************************************************************************)
(* A model of the gota_study tabular engine: the element kinds of package  *)
(* series (string, int, float, bool) with their coercions and comparisons, *)
(* the Series container, the DataFrame with its name fix-up pass, and the  *)
(* keyed joins.                                                            *)
(*                                                                         *)
(* Go strings are TLA+ strings; a float64 is a record [c, h] whose class c *)
(* is "fin", "nan", "pinf" or "ninf" and whose h counts halves (the model  *)
(* covers the float64 values that are multiples of 1/2).  An error value   *)
(* is a string, "" standing for nil.                                       *)
(***************************************************************************)
EXTENDS Integers, Sequences, FiniteSets, TLC

VARIABLES tbl, namelist, fixed, cmp, ser, ord, jn, call, heap, grp

vars == <<tbl, namelist, fixed, cmp, ser, ord, jn, call, heap, grp>>

(***************************************************************************)
(* Bounds of the model.                                                    *)
(***************************************************************************)
MaxRows == 2
MaxCols == 2
MaxNames == 3
MaxLen == 3
MaxJoinRows == 2

MaxNameLen == 3

MaxCells == 4

\* The largest capacity of a backing array.
MaxElems == 3

\* The longest list of sort keys.
MaxKeys == 3

(***************************************************************************)
(* Strings: bytes, order, formatting and parsing (strconv, strings).       *)
(***************************************************************************)
Ascii == "+-.0123456789ABCDEFGHIJKLMNOPQRSTUVWXYZ_abcdefghijklmnopqrstuvwxyz"

Digits == "0123456789"

Upper == "ABCDEFGHIJKLMNOPQRSTUVWXYZ"

Lower == "abcdefghijklmnopqrstuvwxyz"

Char(s, i) == SubSeq(s, i, i)

Rank(c) == CHOOSE i \in 1..Len(Ascii) : Char(Ascii, i) = c

IsDigit(c) == \E i \in 1..Len(Digits) : Char(Digits, i) = c

DigitVal(c) == (CHOOSE i \in 1..Len(Digits) : Char(Digits, i) = c) - 1

AllDigits(s) == \A i \in 1..Len(s) : IsDigit(Char(s, i))

RECURSIVE DigitsVal(_)
DigitsVal(s) ==
    IF Len(s) = 0 THEN 0
    ELSE 10 * DigitsVal(SubSeq(s, 1, Len(s) - 1)) + DigitVal(Char(s, Len(s)))

\* Go's string comparison: bytewise lexicographic.
RECURSIVE StrLess(_, _)
StrLess(x, y) ==
    IF Len(y) = 0 THEN FALSE
    ELSE IF Len(x) = 0 THEN TRUE
    ELSE IF Char(x, 1) = Char(y, 1)
         THEN StrLess(SubSeq(x, 2, Len(x)), SubSeq(y, 2, Len(y)))
         ELSE Rank(Char(x, 1)) < Rank(Char(y, 1))

ToLowerChar(c) ==
    IF \E i \in 1..Len(Upper) : Char(Upper, i) = c
    THEN Char(Lower, CHOOSE i \in 1..Len(Upper) : Char(Upper, i) = c)
    ELSE c

RECURSIVE ToLower(_)
ToLower(s) ==
    IF Len(s) = 0 THEN ""
    ELSE ToLowerChar(Char(s, 1)) \o ToLower(SubSeq(s, 2, Len(s)))

Itoa(n) == ToString(n)

HasSign(s) == Len(s) > 0 /\ Char(s, 1) \in {"+", "-"}

Unsigned(s) == IF HasSign(s) THEN SubSeq(s, 2, Len(s)) ELSE s

Signed(s, n) == IF Len(s) > 0 /\ Char(s, 1) = "-" THEN 0 - n ELSE n

\* strconv.Atoi: an optional sign and one or more decimal digits.
Atoi(s) ==
    LET u == Unsigned(s)
    IN  IF Len(u) > 0 /\ AllDigits(u)
        THEN [ok |-> TRUE, v |-> Signed(s, DigitsVal(u))]
        ELSE [ok |-> FALSE, v |-> 0]

Fin(h) == [c |-> "fin", h |-> h]

NaN == [c |-> "nan", h |-> 0]

PInf == [c |-> "pinf", h |-> 0]

NInf == [c |-> "ninf", h |-> 0]

IsNaN(f) == f.c = "nan"

IsInf(f) == f.c \in {"pinf", "ninf"}

FloatLess(x, y) ==
    /\ ~IsNaN(x) /\ ~IsNaN(y)
    /\ \/ x.c = "ninf" /\ y.c # "ninf"
       \/ x.c = "fin" /\ y.c = "pinf"
       \/ x.c = "fin" /\ y.c = "fin" /\ x.h < y.h

FloatEq(x, y) == ~IsNaN(x) /\ ~IsNaN(y) /\ x = y

IntToFloat(i) == Fin(2 * i)

\* int(f): truncation toward zero.
Trunc(f) == IF f.h >= 0 THEN f.h \div 2 ELSE 0 - ((0 - f.h) \div 2)

\* fmt "%f" and strconv.FormatFloat(f, 'f', 6, 64).
FormatFloat(f) ==
    CASE f.c = "nan" -> "NaN"
      [] f.c = "pinf" -> "+Inf"
      [] f.c = "ninf" -> "-Inf"
      [] OTHER ->
           LET a == IF f.h >= 0 THEN f.h ELSE 0 - f.h
           IN  (IF f.h < 0 THEN "-" ELSE "") \o ToString(a \div 2) \o
               (IF a % 2 = 1 THEN ".500000" ELSE ".000000")

DotAt(s) == {i \in 1..Len(s) : Char(s, i) = "."}

\* The fraction digits of a decimal literal that is a multiple of 1/2.
FracHalves(s) ==
    IF Len(s) = 0 THEN [ok |-> TRUE, v |-> 0]
    ELSE IF ~AllDigits(s) THEN [ok |-> FALSE, v |-> 0]
    ELSE IF AllDigits(s) /\ \A i \in 1..Len(s) : Char(s, i) = "0"
         THEN [ok |-> TRUE, v |-> 0]
    ELSE IF Char(s, 1) = "5" /\ \A i \in 2..Len(s) : Char(s, i) = "0"
         THEN [ok |-> TRUE, v |-> 1]
    ELSE [ok |-> FALSE, v |-> 0]

\* strconv.ParseFloat on the literals of the model: NaN, the infinities and
\* decimals with an optional sign and an optional fraction.
ParseFloat(s) ==
    LET u == Unsigned(s)
        l == ToLower(u)
        dots == DotAt(u)
    IN  IF ToLower(s) = "nan" THEN [ok |-> TRUE, v |-> NaN]
        ELSE IF l \in {"inf", "infinity"}
             THEN [ok |-> TRUE,
                   v |-> IF Len(s) > 0 /\ Char(s, 1) = "-" THEN NInf ELSE PInf]
        ELSE IF Cardinality(dots) = 0
             THEN IF Len(u) > 0 /\ AllDigits(u)
                  THEN [ok |-> TRUE, v |-> Fin(Signed(s, 2 * DigitsVal(u)))]
                  ELSE [ok |-> FALSE, v |-> Fin(0)]
        ELSE IF Cardinality(dots) = 1
             THEN LET d == CHOOSE i \in dots : TRUE
                      ip == SubSeq(u, 1, d - 1)
                      fp == SubSeq(u, d + 1, Len(u))
                      fr == FracHalves(fp)
                  IN  IF Len(ip) + Len(fp) > 0 /\ AllDigits(ip) /\ fr.ok
                      THEN [ok |-> TRUE,
                            v |-> Fin(Signed(s, 2 * DigitsVal(ip) + fr.v))]
                      ELSE [ok |-> FALSE, v |-> Fin(0)]
        ELSE [ok |-> FALSE, v |-> Fin(0)]

(***************************************************************************)
(* Elements.  An element is [t, e, nan]: its kind, its payload and its     *)
(* missing flag.  The payload e is a record [s, n, c, b] of which a text   *)
(* element uses s, an integer element n, a real element c and n (class and *)
(* halves) and a boolean element b; the fields a kind does not use stay at *)
(* their zero values.  A Go value handed to Set is [g, v]: its dynamic     *)
(* type g ("string", "int", "float64", "bool", "Element", or "nil" for nil *)
(* and every unsupported type) and the value itself.                       *)
(***************************************************************************)
String == "string"

IntT == "int"

Float == "float"

Bool == "bool"

Types == {String, IntT, Float, Bool}

VStr(s) == [g |-> "string", v |-> s]

VInt(i) == [g |-> "int", v |-> i]

VFloat(f) == [g |-> "float64", v |-> f]

VBool(b) == [g |-> "bool", v |-> b]

VElem(e) == [g |-> "Element", v |-> e]

VNil == [g |-> "nil", v |-> 0]

U0 == [s |-> "", n |-> 0, c |-> "fin", b |-> FALSE]

US(s) == [U0 EXCEPT !.s = s]

UI(i) == [U0 EXCEPT !.n = i]

UF(f) == [U0 EXCEPT !.c = f.c, !.n = f.h]

UB(b) == [U0 EXCEPT !.b = b]

\* The float64 held by a real element's payload.
FloatOf(u) == [c |-> u.c, h |-> u.n]

\* The zero value of each element struct, as make() allocates it.
Zero(t) == [t |-> t, e |-> U0, nan |-> FALSE]

IsNA(x) == IF x.t = Float THEN x.nan \/ IsNaN(FloatOf(x.e)) ELSE x.nan

ElemString(x) ==
    IF IsNA(x) THEN "NaN"
    ELSE CASE x.t = String -> x.e.s
           [] x.t = IntT -> Itoa(x.e.n)
           [] x.t = Float -> FormatFloat(FloatOf(x.e))
           [] x.t = Bool -> IF x.e.b THEN "true" ELSE "false"

\* Int(): [ok, v]; ok is FALSE where the method returns an error.
ElemInt(x) ==
    IF IsNA(x) THEN [ok |-> FALSE, v |-> 0]
    ELSE CASE x.t = String -> Atoi(x.e.s)
           [] x.t = IntT -> [ok |-> TRUE, v |-> x.e.n]
           [] x.t = Float ->
                IF IsInf(FloatOf(x.e)) THEN [ok |-> FALSE, v |-> 0]
                ELSE [ok |-> TRUE, v |-> Trunc(FloatOf(x.e))]
           [] x.t = Bool -> [ok |-> TRUE, v |-> IF x.e.b THEN 1 ELSE 0]

ElemFloat(x) ==
    IF IsNA(x) THEN NaN
    ELSE CASE x.t = String ->
                LET p == ParseFloat(x.e.s) IN IF p.ok THEN p.v ELSE NaN
           [] x.t = IntT -> IntToFloat(x.e.n)
           [] x.t = Float -> FloatOf(x.e)
           [] x.t = Bool -> IF x.e.b THEN Fin(2) ELSE Fin(0)

\* strings.ToLower(s) is one of "true", "t", "1" or of "false", "f", "0".
ParseBool(s) ==
    LET l == ToLower(s)
    IN  IF l \in {"true", "t", "1"} THEN [ok |-> TRUE, v |-> TRUE]
        ELSE IF l \in {"false", "f", "0"} THEN [ok |-> TRUE, v |-> FALSE]
        ELSE [ok |-> FALSE, v |-> FALSE]

ElemBool(x) ==
    IF IsNA(x) THEN [ok |-> FALSE, v |-> FALSE]
    ELSE CASE x.t = String -> ParseBool(x.e.s)
           [] x.t = IntT ->
                IF x.e.n = 1 THEN [ok |-> TRUE, v |-> TRUE]
                ELSE IF x.e.n = 0 THEN [ok |-> TRUE, v |-> FALSE]
                ELSE [ok |-> FALSE, v |-> FALSE]
           [] x.t = Float ->
                IF FloatOf(x.e) = Fin(2) THEN [ok |-> TRUE, v |-> TRUE]
                ELSE IF FloatOf(x.e) = Fin(0) THEN [ok |-> TRUE, v |-> FALSE]
                ELSE [ok |-> FALSE, v |-> FALSE]
           [] x.t = Bool -> [ok |-> TRUE, v |-> x.e.b]

\* Val(): the native value, nil when missing.
ElemVal(x) ==
    IF IsNA(x) THEN VNil
    ELSE CASE x.t = String -> VStr(x.e.s)
           [] x.t = IntT -> VInt(x.e.n)
           [] x.t = Float -> VFloat(FloatOf(x.e))
           [] x.t = Bool -> VBool(x.e.b)

\* e.nan = true; return: the payload stays what it was.
Missing(x) == [x EXCEPT !.nan = TRUE]

Put(x, u) == [x EXCEPT !.e = u, !.nan = FALSE]

stringElementSet(x, val) ==
    CASE val.g = "string" ->
           IF val.v = "NaN" THEN [x EXCEPT !.e = US(val.v), !.nan = TRUE]
           ELSE Put(x, US(val.v))
      [] val.g = "int" -> Put(x, US(Itoa(val.v)))
      [] val.g = "float64" -> Put(x, US(FormatFloat(val.v)))
      [] val.g = "bool" -> Put(x, US(IF val.v THEN "true" ELSE "false"))
      [] val.g = "Element" -> Put(x, US(ElemString(val.v)))
      [] OTHER -> Missing(x)

intElementSet(x, val) ==
    CASE val.g = "string" ->
           IF val.v = "NaN" THEN Missing(x)
           ELSE LET p == Atoi(val.v)
                IN  IF p.ok THEN Put(x, UI(p.v)) ELSE Missing(x)
      [] val.g = "int" -> Put(x, UI(val.v))
      [] val.g = "float64" ->
           IF IsNaN(val.v) \/ IsInf(val.v) THEN Missing(x)
           ELSE Put(x, UI(Trunc(val.v)))
      [] val.g = "bool" -> Put(x, UI(IF val.v THEN 1 ELSE 0))
      [] val.g = "Element" ->
           LET p == ElemInt(val.v)
           IN  IF p.ok THEN Put(x, UI(p.v)) ELSE Missing(x)
      [] OTHER -> Missing(x)

floatElementSet(x, val) ==
    CASE val.g = "string" ->
           IF val.v = "NaN" THEN Missing(x)
           ELSE LET p == ParseFloat(val.v)
                IN  IF p.ok THEN Put(x, UF(p.v)) ELSE Missing(x)
      [] val.g = "int" -> Put(x, UF(IntToFloat(val.v)))
      [] val.g = "float64" -> Put(x, UF(val.v))
      [] val.g = "bool" -> Put(x, UF(IF val.v THEN Fin(2) ELSE Fin(0)))
      [] val.g = "Element" -> Put(x, UF(ElemFloat(val.v)))
      [] OTHER -> Missing(x)

boolElementSet(x, val) ==
    CASE val.g = "string" ->
           IF val.v = "NaN" THEN Missing(x)
           ELSE LET p == ParseBool(val.v)
                IN  IF p.ok THEN Put(x, UB(p.v)) ELSE Missing(x)
      [] val.g = "int" ->
           IF val.v = 1 THEN Put(x, UB(TRUE))
           ELSE IF val.v = 0 THEN Put(x, UB(FALSE))
           ELSE Missing(x)
      [] val.g = "float64" ->
           IF val.v = Fin(2) THEN Put(x, UB(TRUE))
           ELSE IF val.v = Fin(0) THEN Put(x, UB(FALSE))
           ELSE Missing(x)
      [] val.g = "bool" -> Put(x, UB(val.v))
      [] val.g = "Element" ->
           LET p == ElemBool(val.v)
           IN  IF p.ok THEN Put(x, UB(p.v)) ELSE Missing(x)
      [] OTHER -> Missing(x)

ElemSet(x, val) ==
    CASE x.t = String -> stringElementSet(x, val)
      [] x.t = IntT -> intElementSet(x, val)
      [] x.t = Float -> floatElementSet(x, val)
      [] x.t = Bool -> boolElementSet(x, val)

(***************************************************************************)
(* The six comparisons of each element kind.  The right operand is read    *)
(* through the accessor of the left operand's kind.                        *)
(***************************************************************************)
stringElementEq(x, y) ==
    IF IsNA(x) \/ IsNA(y) THEN FALSE
    ELSE x.e.s = ElemString(y)

stringElementNeq(x, y) ==
    IF IsNA(x) \/ IsNA(y) THEN FALSE
    ELSE x.e.s # ElemString(y)

stringElementLess(x, y) ==
    IF IsNA(x) \/ IsNA(y) THEN FALSE
    ELSE StrLess(x.e.s, ElemString(y))

stringElementLessEq(x, y) ==
    IF IsNA(x) \/ IsNA(y) THEN FALSE
    ELSE x.e.s = ElemString(y) \/ StrLess(x.e.s, ElemString(y))

stringElementGreater(x, y) ==
    IF IsNA(x) \/ IsNA(y) THEN FALSE
    ELSE StrLess(ElemString(y), x.e.s)

stringElementGreaterEq(x, y) ==
    IF IsNA(x) \/ IsNA(y) THEN FALSE
    ELSE x.e.s = ElemString(y) \/ StrLess(ElemString(y), x.e.s)

\* Eq on the stored integers, without the tests of the missing flags.
intElementEqPayload(x, y) == x.e.n = y.e.n

intElementEq(x, y) ==
    LET i == ElemInt(y)
    IN  IF ~i.ok \/ IsNA(x) THEN FALSE
        ELSE x.e.n = i.v

\* Neq without the test of the receiver's missing flag.
intElementNeqNoNA(x, y) ==
    LET i == ElemInt(y)
    IN  IF ~i.ok THEN FALSE
        ELSE x.e.n # i.v

intElementNeq(x, y) ==
    LET i == ElemInt(y)
    IN  IF ~i.ok \/ IsNA(x) THEN FALSE
        ELSE x.e.n # i.v

intElementLess(x, y) ==
    LET i == ElemInt(y)
    IN  IF ~i.ok \/ IsNA(x) THEN FALSE
        ELSE x.e.n < i.v

intElementLessEq(x, y) ==
    LET i == ElemInt(y)
    IN  IF ~i.ok \/ IsNA(x) THEN FALSE
        ELSE x.e.n <= i.v

intElementGreater(x, y) ==
    LET i == ElemInt(y)
    IN  IF ~i.ok \/ IsNA(x) THEN FALSE
        ELSE x.e.n > i.v

intElementGreaterEq(x, y) ==
    LET i == ElemInt(y)
    IN  IF ~i.ok \/ IsNA(x) THEN FALSE
        ELSE x.e.n >= i.v

floatElementEq(x, y) ==
    LET f == ElemFloat(y)
    IN  IF IsNA(x) \/ IsNaN(f) THEN FALSE
        ELSE FloatEq(FloatOf(x.e), f)

floatElementNeq(x, y) ==
    LET f == ElemFloat(y)
    IN  IF IsNA(x) \/ IsNaN(f) THEN FALSE
        ELSE ~FloatEq(FloatOf(x.e), f)

floatElementLess(x, y) ==
    LET f == ElemFloat(y)
    IN  IF IsNA(x) \/ IsNaN(f) THEN FALSE
        ELSE FloatLess(FloatOf(x.e), f)

floatElementLessEq(x, y) ==
    LET f == ElemFloat(y)
    IN  IF IsNA(x) \/ IsNaN(f) THEN FALSE
        ELSE FloatLess(FloatOf(x.e), f) \/ FloatEq(FloatOf(x.e), f)

floatElementGreater(x, y) ==
    LET f == ElemFloat(y)
    IN  IF IsNA(x) \/ IsNaN(f) THEN FALSE
        ELSE FloatLess(f, FloatOf(x.e))

floatElementGreaterEq(x, y) ==
    LET f == ElemFloat(y)
    IN  IF IsNA(x) \/ IsNaN(f) THEN FALSE
        ELSE FloatLess(f, FloatOf(x.e)) \/ FloatEq(FloatOf(x.e), f)

boolElementEq(x, y) ==
    LET b == ElemBool(y)
    IN  IF ~b.ok \/ IsNA(x) THEN FALSE
        ELSE x.e.b = b.v

boolElementNeq(x, y) ==
    LET b == ElemBool(y)
    IN  IF ~b.ok \/ IsNA(x) THEN FALSE
        ELSE x.e.b # b.v

boolElementLess(x, y) ==
    LET b == ElemBool(y)
    IN  IF ~b.ok \/ IsNA(x) THEN FALSE
        ELSE ~x.e.b /\ b.v

boolElementLessEq(x, y) ==
    LET b == ElemBool(y)
    IN  IF ~b.ok \/ IsNA(x) THEN FALSE
        ELSE ~x.e.b \/ b.v

boolElementGreater(x, y) ==
    LET b == ElemBool(y)
    IN  IF ~b.ok \/ IsNA(x) THEN FALSE
        ELSE x.e.b /\ ~b.v

boolElementGreaterEq(x, y) ==
    LET b == ElemBool(y)
    IN  IF ~b.ok \/ IsNA(x) THEN FALSE
        ELSE x.e.b \/ ~b.v

ElemEq(x, y) ==
    CASE x.t = String -> stringElementEq(x, y)
      [] x.t = IntT -> intElementEq(x, y)
      [] x.t = Float -> floatElementEq(x, y)
      [] x.t = Bool -> boolElementEq(x, y)

ElemNeq(x, y) ==
    CASE x.t = String -> stringElementNeq(x, y)
      [] x.t = IntT -> intElementNeq(x, y)
      [] x.t = Float -> floatElementNeq(x, y)
      [] x.t = Bool -> boolElementNeq(x, y)

ElemLess(x, y) ==
    CASE x.t = String -> stringElementLess(x, y)
      [] x.t = IntT -> intElementLess(x, y)
      [] x.t = Float -> floatElementLess(x, y)
      [] x.t = Bool -> boolElementLess(x, y)

ElemLessEq(x, y) ==
    CASE x.t = String -> stringElementLessEq(x, y)
      [] x.t = IntT -> intElementLessEq(x, y)
      [] x.t = Float -> floatElementLessEq(x, y)
      [] x.t = Bool -> boolElementLessEq(x, y)

ElemGreater(x, y) ==
    CASE x.t = String -> stringElementGreater(x, y)
      [] x.t = IntT -> intElementGreater(x, y)
      [] x.t = Float -> floatElementGreater(x, y)
      [] x.t = Bool -> boolElementGreater(x, y)

ElemGreaterEq(x, y) ==
    CASE x.t = String -> stringElementGreaterEq(x, y)
      [] x.t = IntT -> intElementGreaterEq(x, y)
      [] x.t = Float -> floatElementGreaterEq(x, y)
      [] x.t = Bool -> boolElementGreaterEq(x, y)

(***************************************************************************)
(* Series.  A Series is [Name, elements, t, Err].  Indexes are 0-based as  *)
(* in the source; elements[i + 1] is the element at index i.               *)
(***************************************************************************)
VSlice(vs) == [g |-> "slice", v |-> vs]

VSeries(x) == [g |-> "Series", v |-> x]

\* The error of a run-time fault (an index outside the backing array).
PanicErr == "panic: index out of range"

SeriesNew(values, t, name) ==
    LET vs == CASE values.g = "nil" -> <<VNil>>
                [] values.g = "slice" -> values.v
                [] values.g = "Series" ->
                     [i \in 1..Len(values.v.elements) |-> VElem(values.v.elements[i])]
                [] OTHER -> <<values>>
    IN  [Name |-> name,
         elements |-> [i \in 1..Len(vs) |-> ElemSet(Zero(t), vs[i])],
         t |-> t,
         Err |-> ""]

SeriesLen(x) == Len(x.elements)

\* New([]int{}, s.t, s.Name): no element is made.
SeriesEmpty(x) == [Name |-> x.Name, elements |-> <<>>, t |-> x.t, Err |-> ""]

SeriesAppend(x, values) ==
    IF x.Err # "" THEN x
    ELSE [x EXCEPT !.elements = @ \o SeriesNew(values, x.t, x.Name).elements]

SeriesCopy(x) == [Name |-> x.Name, elements |-> x.elements, t |-> x.t, Err |-> x.Err]

SeriesConcat(x, y) ==
    IF x.Err # "" THEN x
    ELSE IF y.Err # ""
         THEN [x EXCEPT !.Err = "concat error: argument has errors"]
    ELSE SeriesAppend(SeriesCopy(x), VSeries(y))

HasNaN(x) == \E i \in 1..SeriesLen(x) : IsNA(x.elements[i])

IsNaNs(x) == [i \in 1..SeriesLen(x) |-> IsNA(x.elements[i])]

\* Series.Int and Series.Bool: [ok, v], ok FALSE when an element refuses.
SeriesInt(x) ==
    IF \A i \in 1..SeriesLen(x) : ElemInt(x.elements[i]).ok
    THEN [ok |-> TRUE, v |-> [i \in 1..SeriesLen(x) |-> ElemInt(x.elements[i]).v]]
    ELSE [ok |-> FALSE, v |-> <<>>]

SeriesBool(x) ==
    IF \A i \in 1..SeriesLen(x) : ElemBool(x.elements[i]).ok
    THEN [ok |-> TRUE, v |-> [i \in 1..SeriesLen(x) |-> ElemBool(x.elements[i]).v]]
    ELSE [ok |-> FALSE, v |-> <<>>]

Records(x) == [i \in 1..SeriesLen(x) |-> ElemString(x.elements[i])]

IxInts(v) == [g |-> "ints", v |-> v]

IxInt(i) == [g |-> "int", v |-> i]

IxBools(v) == [g |-> "bools", v |-> v]

IxSeries(x) == [g |-> "Series", v |-> x]

IxStr(n) == [g |-> "string", v |-> n]

IxStrs(v) == [g |-> "strings", v |-> v]

\* The 0-based positions of the TRUE entries of a mask, in increasing order.
RECURSIVE TruePositions(_)
TruePositions(bools) ==
    IF Len(bools) = 0 THEN <<>>
    ELSE TruePositions(SubSeq(bools, 1, Len(bools) - 1)) \o
         (IF bools[Len(bools)] THEN <<Len(bools) - 1>> ELSE <<>>)

\* parseIndexes: [err, idx].
parseIndexes(l, indexes) ==
    CASE indexes.g = "ints" -> [err |-> "", idx |-> indexes.v]
      [] indexes.g = "int" -> [err |-> "", idx |-> <<indexes.v>>]
      [] indexes.g = "bools" ->
           IF Len(indexes.v) # l
           THEN [err |-> "index dimensions mismatch", idx |-> <<>>]
           ELSE [err |-> "", idx |-> TruePositions(indexes.v)]
      [] indexes.g = "Series" ->
           LET x == indexes.v
           IN  IF x.Err # "" THEN [err |-> "new values has errors", idx |-> <<>>]
               ELSE IF HasNaN(x) THEN [err |-> "indexes contain NaN", idx |-> <<>>]
               ELSE IF x.t = IntT
                    THEN IF SeriesInt(x).ok
                         THEN [err |-> "", idx |-> SeriesInt(x).v]
                         ELSE [err |-> "can't convert to int", idx |-> <<>>]
               ELSE IF x.t = Bool
                    THEN IF ~SeriesBool(x).ok
                         THEN [err |-> "can't convert to bool", idx |-> <<>>]
                         ELSE IF Len(SeriesBool(x).v) # l
                              THEN [err |-> "index dimensions mismatch", idx |-> <<>>]
                              ELSE [err |-> "", idx |-> TruePositions(SeriesBool(x).v)]
               ELSE [err |-> "unknown indexing mode", idx |-> <<>>]
      [] OTHER -> [err |-> "unknown indexing mode", idx |-> <<>>]

InRange(x, i) == 0 <= i /\ i < SeriesLen(x)

SeriesSubset(x, indexes) ==
    IF x.Err # "" THEN x
    ELSE LET p == parseIndexes(SeriesLen(x), indexes)
         IN  IF p.err # "" THEN [x EXCEPT !.Err = p.err]
             ELSE IF \E k \in 1..Len(p.idx) : ~InRange(x, p.idx[k])
                  THEN [Name |-> x.Name, elements |-> <<>>, t |-> x.t,
                        Err |-> PanicErr]
             ELSE [Name |-> x.Name,
                   elements |-> [k \in 1..Len(p.idx) |-> x.elements[p.idx[k] + 1]],
                   t |-> x.t,
                   Err |-> ""]

\* The in-place overwrite loop of Series.Set from position k of idx on.
RECURSIVE SetLoop(_, _, _, _)
SetLoop(x, idx, newValue, k) ==
    IF k > Len(idx) THEN x
    ELSE IF ~InRange(x, idx[k]) THEN [x EXCEPT !.Err = "set error: index out of range"]
    ELSE SetLoop([x EXCEPT !.elements[idx[k] + 1] =
                        ElemSet(@, VElem(newValue.elements[k]))],
                 idx, newValue, k + 1)

SeriesSet(x, indexes, newValue) ==
    IF x.Err # "" THEN x
    ELSE IF newValue.Err # "" THEN [x EXCEPT !.Err = "set error: argument has errors"]
    ELSE LET p == parseIndexes(SeriesLen(x), indexes)
         IN  IF p.err # "" THEN [x EXCEPT !.Err = p.err]
             ELSE IF Len(p.idx) # SeriesLen(newValue)
                  THEN [x EXCEPT !.Err = "set error: dimensions mismatch"]
             ELSE SetLoop(x, p.idx, newValue, 1)

\* compareElements of Compare: [ok, v], ok FALSE for an unknown comparator.
compareElements(a, b, c) ==
    CASE c = "==" -> [ok |-> TRUE, v |-> ElemEq(a, b)]
      [] c = "!=" -> [ok |-> TRUE, v |-> ElemNeq(a, b)]
      [] c = ">" -> [ok |-> TRUE, v |-> ElemGreater(a, b)]
      [] c = ">=" -> [ok |-> TRUE, v |-> ElemGreaterEq(a, b)]
      [] c = "<" -> [ok |-> TRUE, v |-> ElemLess(a, b)]
      [] c = "<=" -> [ok |-> TRUE, v |-> ElemLessEq(a, b)]
      [] OTHER -> [ok |-> FALSE, v |-> FALSE]

\* series.Bools of a []bool.
Bools(bools) == SeriesNew(VSlice([i \in 1..Len(bools) |-> VBool(bools[i])]), Bool, "")

\* s.Empty() with Err set.
EmptyErr(x, e) == [SeriesEmpty(x) EXCEPT !.Err = e]

\* pairs[i] is the operand element the i-th element is compared with.
CompareWith(x, comp, comparator, pairs) ==
    LET r == [i \in 1..SeriesLen(x) |->
                 compareElements(x.elements[i], comp.elements[pairs[i]], comparator)]
    IN  IF \E i \in 1..SeriesLen(x) : ~r[i].ok
        THEN EmptyErr(x, "unknown comparator")
        ELSE Bools([i \in 1..SeriesLen(x) |-> r[i].v])

\* Compare without the broadcast of an operand of length 1.
SeriesCompareNoBroadcast(x, comparator, comparando) ==
    LET comp == SeriesNew(comparando, x.t, "")
    IN  IF x.Err # "" THEN x
        ELSE IF comparator = "in"
             THEN Bools([i \in 1..SeriesLen(x) |->
                            \E j \in 1..SeriesLen(comp) :
                                ElemEq(x.elements[i], comp.elements[j])])
        ELSE IF SeriesLen(x) # SeriesLen(comp)
             THEN EmptyErr(x, "can't compare: length mismatch")
        ELSE CompareWith(x, comp, comparator, [i \in 1..SeriesLen(x) |-> i])

\* Compare with one of the six relational comparators or with In ("in");
\* the caller-supplied predicate of CompFunc is not modelled.
SeriesCompare(x, comparator, comparando) ==
    LET comp == SeriesNew(comparando, x.t, "")
    IN  IF x.Err # "" THEN x
        ELSE IF comparator = "in"
             THEN Bools([i \in 1..SeriesLen(x) |->
                            \E j \in 1..SeriesLen(comp) :
                                ElemEq(x.elements[i], comp.elements[j])])
        ELSE IF SeriesLen(comp) # 1 /\ SeriesLen(x) # SeriesLen(comp)
             THEN EmptyErr(x, "can't compare: length mismatch")
        ELSE CompareWith(x, comp, comparator,
                         [i \in 1..SeriesLen(x) |-> IF SeriesLen(comp) = 1 THEN 1 ELSE i])

(***************************************************************************)
(* Series.Order.  sort.Stable on fewer than 20 elements is one insertion   *)
(* sort over the whole range; sort.Reverse swaps the arguments of Less.    *)
(***************************************************************************)
\* indexedElements.Less on two entries (0-based element indexes a and b).
ieLess(x, reverse, a, b) ==
    IF reverse THEN ElemLess(x.elements[b + 1], x.elements[a + 1])
    ELSE ElemLess(x.elements[a + 1], x.elements[b + 1])

Swap(q, i, j) == [q EXCEPT ![i] = q[j], ![j] = q[i]]

RECURSIVE Sift(_, _, _, _)
Sift(x, reverse, ie, j) ==
    IF j > 1 /\ ieLess(x, reverse, ie[j], ie[j - 1])
    THEN Sift(x, reverse, Swap(ie, j, j - 1), j - 1)
    ELSE ie

RECURSIVE insertionSort(_, _, _, _)
insertionSort(x, reverse, ie, i) ==
    IF i > Len(ie) THEN ie
    ELSE insertionSort(x, reverse, Sift(x, reverse, ie, i), i + 1)

\* The 0-based indexes of the elements whose IsNA() is na, in index order.
RECURSIVE IdxWhere(_, _, _)
IdxWhere(x, na, n) ==
    IF n = 0 THEN <<>>
    ELSE IdxWhere(x, na, n - 1) \o
         (IF IsNA(x.elements[n]) = na THEN <<n - 1>> ELSE <<>>)

RECURSIVE Rev(_)
Rev(q) == IF Len(q) = 0 THEN <<>> ELSE <<q[Len(q)]>> \o Rev(SubSeq(q, 1, Len(q) - 1))

\* Descending order taken as the ascending order reversed.
OrderRevTies(x, reverse) ==
    LET asc == insertionSort(x, FALSE, IdxWhere(x, FALSE, SeriesLen(x)), 2)
    IN  (IF reverse THEN Rev(asc) ELSE asc) \o IdxWhere(x, TRUE, SeriesLen(x))

\* The reverse flag ignored.
OrderNoReverse(x, reverse) ==
    insertionSort(x, FALSE, IdxWhere(x, FALSE, SeriesLen(x)), 2) \o
    IdxWhere(x, TRUE, SeriesLen(x))

Order(x, reverse) ==
    insertionSort(x, reverse, IdxWhere(x, FALSE, SeriesLen(x)), 2) \o
    IdxWhere(x, TRUE, SeriesLen(x))

(***************************************************************************)
(* The statistical reductions of a Series.  A result is the float64        *)
(* num / den, or its square root when root is TRUE; c tells a finite       *)
(* result from NaN and the infinities, and "panic" is a run-time fault.    *)
(***************************************************************************)
Stat(c, num, den, root) == [c |-> c, num |-> num, den |-> den, root |-> root]

StatNaN == Stat("nan", 0, 1, FALSE)

StatOf(f) == Stat(f.c, f.h, 2, FALSE)

\* float64 addition.
FloatAdd(x, y) ==
    IF IsNaN(x) \/ IsNaN(y) THEN NaN
    ELSE IF IsInf(x) /\ IsInf(y) THEN (IF x.c = y.c THEN x ELSE NaN)
    ELSE IF IsInf(x) THEN x
    ELSE IF IsInf(y) THEN y
    ELSE Fin(x.h + y.h)

\* s.Float()
SeriesFloat(x) == [i \in 1..SeriesLen(x) |-> ElemFloat(x.elements[i])]

\* sum := fs[from - 1]; sum += fs[i] for the later i.
RECURSIVE FloatSum(_, _, _)
FloatSum(fs, acc, k) ==
    IF k > Len(fs) THEN acc ELSE FloatSum(fs, FloatAdd(acc, fs[k]), k + 1)

SeriesSum(x) ==
    IF SeriesLen(x) = 0 \/ x.t = String \/ x.t = Bool THEN StatNaN
    ELSE StatOf(FloatSum(SeriesFloat(x), SeriesFloat(x)[1], 2))

\* stat.Mean(s.Float(), nil): the sum divided by the length, 0/0 when empty.
SeriesMean(x) ==
    LET sum == FloatSum(SeriesFloat(x), Fin(0), 1)
    IN  IF SeriesLen(x) = 0 \/ IsNaN(sum) THEN StatNaN
        ELSE IF IsInf(sum) THEN StatOf(sum)
        ELSE Stat("fin", sum.h, 2 * SeriesLen(x), FALSE)

RECURSIVE SumSq(_, _, _, _)
SumSq(fs, n, total, k) ==
    IF k > Len(fs) THEN 0
    ELSE (n * fs[k].h - total) * (n * fs[k].h - total) + SumSq(fs, n, total, k + 1)

\* stat.StdDev(s.Float(), nil): the square root of the sum of squared
\* deviations from the mean over n - 1; NaN for fewer than two values and
\* whenever a value is not finite.
SeriesStdDev(x) ==
    LET fs == SeriesFloat(x)
        n == Len(fs)
    IN  IF n <= 1 \/ \E i \in 1..n : fs[i].c # "fin" THEN StatNaN
        ELSE Stat("fin", SumSq(fs, n, FloatSum(fs, Fin(0), 1).h, 1),
                  4 * n * n * (n - 1), TRUE)

SeriesMedian(x) ==
    IF SeriesLen(x) = 0 \/ x.t = String \/ x.t = Bool THEN StatNaN
    ELSE LET ix == Order(x, FALSE)
             n == Len(ix)
             lo == ElemFloat(x.elements[ix[n \div 2] + 1])
             hi == ElemFloat(x.elements[ix[n \div 2 + 1] + 1])
         IN  IF n % 2 # 0 THEN StatOf(hi)
             ELSE IF IsNaN(FloatAdd(lo, hi)) THEN StatNaN
             ELSE IF IsInf(FloatAdd(lo, hi)) THEN StatOf(FloatAdd(lo, hi))
             ELSE Stat("fin", lo.h + hi.h, 4, FALSE)

\* max := Elem(0); each later element that is Greater than max replaces it.
RECURSIVE MaxLoop(_, _, _)
MaxLoop(x, max, k) ==
    IF k > SeriesLen(x) THEN max
    ELSE MaxLoop(x, IF ElemGreater(x.elements[k], max) THEN x.elements[k] ELSE max, k + 1)

RECURSIVE MinLoop(_, _, _)
MinLoop(x, min, k) ==
    IF k > SeriesLen(x) THEN min
    ELSE MinLoop(x, IF ElemLess(x.elements[k], min) THEN x.elements[k] ELSE min, k + 1)

SeriesMax(x) ==
    IF SeriesLen(x) = 0 \/ x.t = String THEN StatNaN
    ELSE StatOf(ElemFloat(MaxLoop(x, x.elements[1], 2)))

SeriesMaxStr(x) ==
    IF SeriesLen(x) = 0 \/ x.t # String THEN ""
    ELSE ElemString(MaxLoop(x, x.elements[1], 2))

SeriesMin(x) ==
    IF SeriesLen(x) = 0 \/ x.t = String THEN StatNaN
    ELSE StatOf(ElemFloat(MinLoop(x, x.elements[1], 2)))

SeriesMinStr(x) ==
    IF SeriesLen(x) = 0 \/ x.t # String THEN ""
    ELSE ElemString(MinLoop(x, x.elements[1], 2))

\* stat.Quantile(p, stat.Empirical, ordered, nil) for p = ph / 2: the first
\* ordered value whose rank reaches p times the length.  With a NaN among the
\* values the library returns NaN or stops with a fault, depending on its
\* version.
SeriesQuantile(x, ph) ==
    IF x.t = String \/ SeriesLen(x) = 0 THEN {StatNaN}
    ELSE LET ordered == SeriesFloat(SeriesSubset(x, IxInts(Order(x, FALSE))))
             n == Len(ordered)
             rank == CHOOSE i \in 1..n :
                         /\ 2 * i >= ph * n
                         /\ \A j \in 1..(i - 1) : 2 * j < ph * n
         IN  IF \E i \in 1..n : IsNaN(ordered[i])
             THEN {StatNaN, Stat("panic", 0, 1, FALSE)}
             ELSE {StatOf(ordered[rank])}

\* The positions i - window .. i - 1 of the block that ends at position i.
BlockIndex(i, window) ==
    [k \in 1..(IF window > 0 THEN window ELSE 0) |-> i - window + k - 1]

\* getBlocks with the test i <= window in place of i < window.
getBlocksLate(x, window) ==
    [i \in 1..SeriesLen(x) |->
        IF i <= window THEN SeriesEmpty(x)
        ELSE SeriesSubset(x, IxInts(BlockIndex(i, window)))]

\* RollingWindow.getBlocks: one block per position i = 1 .. Len.
getBlocks(x, window) ==
    [i \in 1..SeriesLen(x) |->
        IF i < window THEN SeriesEmpty(x)
        ELSE SeriesSubset(x, IxInts(BlockIndex(i, window)))]

\* RollingWindow.Mean and StdDev: a Float Series with the float64 of each
\* block appended; vals are the values held, and an element of a Float Series
\* is missing exactly when its value is NaN.
RollingMean(x, window) ==
    LET blocks == getBlocks(x, window)
    IN  [Name |-> "Mean", t |-> Float,
         vals |-> [i \in 1..Len(blocks) |-> SeriesMean(blocks[i])]]

RollingStdDev(x, window) ==
    LET blocks == getBlocks(x, window)
    IN  [Name |-> "StdDev", t |-> Float,
         vals |-> [i \in 1..Len(blocks) |-> SeriesStdDev(blocks[i])]]

(***************************************************************************)
(* fixColnames: the name fix-up pass over a slice of column names.         *)
(***************************************************************************)
findInStringSlice(str, sl) ==
    IF \E i \in 1..Len(sl) : sl[i] = str
    THEN (CHOOSE i \in 1..Len(sl) : sl[i] = str /\ \A j \in 1..(i - 1) : sl[j] # str) - 1
    ELSE -1

\* The positions (1-based, increasing) of cn holding name.
RECURSIVE Places(_, _, _)
Places(cn, name, n) ==
    IF n = 0 THEN <<>>
    ELSE Places(cn, name, n - 1) \o (IF cn[n] = name THEN <<n>> ELSE <<>>)

\* The first counter value from counter on whose proposed name is not in cn.
FreeCounterUnchecked(prefix, counter, cn) == counter

RECURSIVE FreeCounter(_, _, _)
FreeCounter(prefix, counter, cn) ==
    IF findInStringSlice(prefix \o ToString(counter), cn) # -1
    THEN FreeCounter(prefix, counter + 1, cn)
    ELSE counter

\* One renaming loop: the places get prefix<counter> names, in order.
RECURSIVE Rename1(_, _, _, _)
Rename1(cn, prefix, places, counter) ==
    IF Len(places) = 0 THEN cn
    ELSE LET c == FreeCounter(prefix, counter, cn)
         IN  Rename1([cn EXCEPT ![places[1]] = prefix \o ToString(c)],
                     prefix, Tail(places), c + 1)

\* sort.Strings over a set of strings.
RECURSIVE SortStrings(_)
SortStrings(S) ==
    IF S = {} THEN <<>>
    ELSE LET m == CHOOSE a \in S : \A b \in S : ~StrLess(b, a)
         IN  <<m>> \o SortStrings(S \ {m})

RECURSIVE FixDups(_, _, _)
FixDups(cn, keys, dupnamesidx) ==
    IF Len(keys) = 0 THEN cn
    ELSE FixDups(Rename1(cn, keys[1] \o "_", dupnamesidx[keys[1]], 0),
                 Tail(keys), dupnamesidx)

fixColnames(cn) ==
    LET n == Len(cn)
        missingnames == Places(cn, "", n)
        dups == {cn[i] : i \in {i \in 1..n :
                     cn[i] # "" /\ Len(Places(cn, cn[i], n)) >= 2}}
        dupnamesidx == [k \in dups |-> Places(cn, k, n)]
        afterMissing == Rename1(cn, "X", missingnames, 0)
    IN  FixDups(afterMissing, SortStrings(dups), dupnamesidx)

(***************************************************************************)
(* DataFrame.  A Table is [columns, ncols, nrows, Err]; Err = "" is nil.   *)
(***************************************************************************)
ErrDF(e) == [columns |-> <<>>, ncols |-> 0, nrows |-> 0, Err |-> e]

Names(df) == [i \in 1..df.ncols |-> df.columns[i].Name]

\* The dimension check without the comparison of the column lengths.
checkColumnsDimensionsNoLen(se) ==
    LET n == Len(se)
    IN  IF n = 0 THEN [nrows |-> -1, ncols |-> 0, err |-> "no Series given"]
        ELSE IF \E i \in 1..n : se[i].Err # ""
             THEN [nrows |-> -1, ncols |-> n, err |-> "error on series"]
        ELSE [nrows |-> SeriesLen(se[1]), ncols |-> n, err |-> ""]

\* [nrows, ncols, err]: the loop stops at the first column that carries an
\* error or whose length differs from the first column's.
checkColumnsDimensions(se) ==
    LET n == Len(se)
        bad == {i \in 1..n : se[i].Err # "" \/ SeriesLen(se[i]) # SeriesLen(se[1])}
        first == CHOOSE i \in bad : \A j \in bad : i <= j
    IN  IF n = 0 THEN [nrows |-> -1, ncols |-> 0, err |-> "no Series given"]
        ELSE IF bad = {}
             THEN [nrows |-> SeriesLen(se[1]), ncols |-> n, err |-> ""]
        ELSE IF se[first].Err # ""
             THEN [nrows |-> IF first = 1 THEN -1 ELSE SeriesLen(se[1]),
                   ncols |-> n, err |-> "error on series"]
        ELSE [nrows |-> SeriesLen(se[1]), ncols |-> n,
              err |-> "arguments have different dimensions"]

WithNames(columns, cn) ==
    [i \in 1..Len(columns) |-> [columns[i] EXCEPT !.Name = cn[i]]]

\* The common tail of New, Select, Drop and Mutate: check the dimensions,
\* build the Table and fix its column names.
Built(columns) ==
    LET c == checkColumnsDimensions(columns)
    IN  IF c.err # "" THEN ErrDF(c.err)
        ELSE [columns |->
                 WithNames(columns,
                           fixColnames([i \in 1..Len(columns) |-> columns[i].Name])),
              ncols |-> c.ncols, nrows |-> c.nrows, Err |-> ""]

DFNew(se) ==
    IF Len(se) = 0 THEN ErrDF("empty DataFrame")
    ELSE Built([i \in 1..Len(se) |-> SeriesCopy(se[i])])

DFCopy(df) ==
    LET copy == DFNew(df.columns)
    IN  IF df.Err # "" THEN [copy EXCEPT !.Err = df.Err] ELSE copy

\* Series.Set overwrites the elements of each column in place; the Table
\* returned is the receiver.
DFSet(df, indexes, newvalues) ==
    IF df.Err # "" THEN df
    ELSE IF newvalues.Err # "" THEN ErrDF("argument has errors")
    ELSE IF df.ncols # newvalues.ncols THEN ErrDF("different number of columns")
    ELSE LET cols == [i \in 1..df.ncols |->
                         SeriesSet(df.columns[i], indexes, newvalues.columns[i])]
         IN  IF \E i \in 1..df.ncols : cols[i].Err # ""
             THEN ErrDF("set error on column")
             ELSE [df EXCEPT !.columns = cols]

DFSubset(df, indexes) ==
    IF df.Err # "" THEN df
    ELSE LET cols == [i \in 1..df.ncols |-> SeriesSubset(df.columns[i], indexes)]
             c == checkColumnsDimensions(cols)
         IN  IF \E i \in 1..df.ncols : cols[i].Err = PanicErr THEN ErrDF(PanicErr)
             ELSE IF c.err # "" THEN ErrDF(c.err)
             ELSE [columns |-> cols, ncols |-> c.ncols, nrows |-> c.nrows, Err |-> ""]

\* [err, idx] over 0-based column indexes.
RECURSIVE NameIndexes(_, _)
NameIndexes(xs, colnames) ==
    IF Len(xs) = 0 THEN [err |-> "", idx |-> <<>>]
    ELSE LET i == findInStringSlice(xs[1], colnames)
             rest == NameIndexes(Tail(xs), colnames)
         IN  IF i < 0 THEN [err |-> "can't find column name", idx |-> <<>>]
             ELSE IF rest.err # "" THEN rest
             ELSE [err |-> "", idx |-> <<i>> \o rest.idx]

BoolIndexes(l, bools) ==
    IF Len(bools) # l THEN [err |-> "index dimensions mismatch", idx |-> <<>>]
    ELSE [err |-> "", idx |-> TruePositions(bools)]

parseSelectIndexes(l, indexes, colnames) ==
    CASE indexes.g = "ints" -> [err |-> "", idx |-> indexes.v]
      [] indexes.g = "int" -> [err |-> "", idx |-> <<indexes.v>>]
      [] indexes.g = "bools" -> BoolIndexes(l, indexes.v)
      [] indexes.g = "string" -> NameIndexes(<<indexes.v>>, colnames)
      [] indexes.g = "strings" -> NameIndexes(indexes.v, colnames)
      [] indexes.g = "Series" ->
           LET x == indexes.v
           IN  IF x.Err # "" THEN [err |-> "new values has errors", idx |-> <<>>]
               ELSE IF HasNaN(x) THEN [err |-> "indexes contain NaN", idx |-> <<>>]
               ELSE IF x.t = IntT
                    THEN IF SeriesInt(x).ok
                         THEN [err |-> "", idx |-> SeriesInt(x).v]
                         ELSE [err |-> "can't convert to int", idx |-> <<>>]
               ELSE IF x.t = Bool
                    THEN IF SeriesBool(x).ok
                         THEN BoolIndexes(l, SeriesBool(x).v)
                         ELSE [err |-> "can't convert to bool", idx |-> <<>>]
               ELSE IF x.t = String THEN NameIndexes(Records(x), colnames)
               ELSE [err |-> "unknown indexing mode", idx |-> <<>>]
      [] OTHER -> [err |-> "unknown indexing mode", idx |-> <<>>]

inIntSlice(i, is) == \E k \in 1..Len(is) : is[k] = i

\* The indexes 0..n-1 that are not in is, in increasing order.
RECURSIVE Others(_, _)
Others(n, is) ==
    IF n = 0 THEN <<>>
    ELSE Others(n - 1, is) \o (IF inIntSlice(n - 1, is) THEN <<>> ELSE <<n - 1>>)

DFSelect(df, indexes) ==
    IF df.Err # "" THEN df
    ELSE LET p == parseSelectIndexes(df.ncols, indexes, Names(df))
         IN  IF p.err # "" THEN ErrDF("can't select columns")
             ELSE IF \E k \in 1..Len(p.idx) : p.idx[k] < 0 \/ p.idx[k] >= df.ncols
                  THEN ErrDF("can't select columns: index out of range")
             ELSE Built([k \in 1..Len(p.idx) |-> SeriesCopy(df.columns[p.idx[k] + 1])])

DFDrop(df, indexes) ==
    IF df.Err # "" THEN df
    ELSE LET p == parseSelectIndexes(df.ncols, indexes, Names(df))
             keep == Others(df.ncols, p.idx)
         IN  IF p.err # "" THEN ErrDF("can't select columns")
             ELSE Built([k \in 1..Len(keep) |-> SeriesCopy(df.columns[keep[k] + 1])])

\* The Series s itself, not a copy of it, becomes the column.
DFMutate(df, s) ==
    IF df.Err # "" THEN df
    ELSE IF SeriesLen(s) # df.nrows THEN ErrDF("mutate: dimensions mismatch")
    ELSE LET copy == DFCopy(df)
             idx == findInStringSlice(s.Name, Names(copy))
         IN  Built(IF idx # -1 THEN [copy.columns EXCEPT ![idx + 1] = s]
                   ELSE Append(copy.columns, s))

DFCBind(df, dfb) ==
    IF df.Err # "" THEN df
    ELSE IF dfb.Err # "" THEN dfb
    ELSE DFNew(df.columns \o dfb.columns)

DFRBind(df, dfb) ==
    IF df.Err # "" THEN df
    ELSE IF dfb.Err # "" THEN dfb
    ELSE LET idx(k) == findInStringSlice(Names(df)[k], Names(dfb))
             newSeries(k) == SeriesConcat(df.columns[k], dfb.columns[idx(k) + 1])
             bad == {k \in 1..df.ncols : idx(k) = -1 \/ newSeries(k).Err # ""}
             first == CHOOSE k \in bad : \A j \in bad : k <= j
         IN  IF bad # {}
             THEN IF idx(first) = -1 THEN ErrDF("rbind: column names are not compatible")
                  ELSE ErrDF("rbind: concat error")
             ELSE DFNew([k \in 1..df.ncols |-> newSeries(k)])

\* The names of cn without repetitions, in order of first occurrence.
RECURSIVE Uniques(_)
Uniques(cn) ==
    IF Len(cn) = 0 THEN <<>>
    ELSE LET front == Uniques(SubSeq(cn, 1, Len(cn) - 1))
         IN  IF findInStringSlice(cn[Len(cn)], front) # -1 THEN front
             ELSE Append(front, cn[Len(cn)])

\* series.New(make([]struct{}, n), t, name): n missing elements.
Blank(n, t, name) == SeriesNew(VSlice([i \in 1..n |-> VNil]), t, name)

DFConcat(df, dfb) ==
    IF df.Err # "" THEN df
    ELSE IF dfb.Err # "" THEN dfb
    ELSE LET cols == Uniques(Names(df) \o Names(dfb))
             aidx(k) == findInStringSlice(cols[k], Names(df))
             bidx(k) == findInStringSlice(cols[k], Names(dfb))
             a(k) == IF aidx(k) # -1 THEN df.columns[aidx(k) + 1]
                     ELSE Blank(df.nrows, dfb.columns[bidx(k) + 1].t,
                                dfb.columns[bidx(k) + 1].Name)
             b(k) == IF bidx(k) # -1 THEN dfb.columns[bidx(k) + 1]
                     ELSE Blank(dfb.nrows, a(k).t, a(k).Name)
             newSeries(k) == SeriesConcat(a(k), b(k))
         IN  IF \E k \in 1..Len(cols) : newSeries(k).Err # ""
             THEN ErrDF("concat: concat error")
             ELSE DFNew([k \in 1..Len(cols) |-> newSeries(k)])

\* The caller's function of Capply, one of three: the Series itself, its
\* Empty(), and its Subset on the indexes of its non-missing elements.
ApplyF(f, x) ==
    CASE f = "Copy" -> x
      [] f = "Empty" -> SeriesEmpty(x)
      [] f = "Present" -> SeriesSubset(x, IxInts(IdxWhere(x, FALSE, SeriesLen(x))))

DFCapply(df, f) ==
    IF df.Err # "" THEN df
    ELSE DFNew([i \in 1..df.ncols |->
                   [ApplyF(f, df.columns[i]) EXCEPT !.Name = df.columns[i].Name]])

DFRename(df, newname, oldname) ==
    IF df.Err # "" THEN df
    ELSE LET idx == findInStringSlice(oldname, Names(df))
             copy == DFCopy(df)
         IN  IF idx = -1 THEN ErrDF("rename: can't find column name")
             ELSE [copy EXCEPT !.columns[idx + 1].Name = newname]

\* SetNames writes the names into the receiver's columns; the Table after the
\* call (unchanged when the call returns an error).
DFSetNames(df, cn) ==
    IF df.Err # "" THEN df
    ELSE IF Len(cn) # df.ncols THEN df
    ELSE [df EXCEPT !.columns = WithNames(df.columns, cn)]

(***************************************************************************)
(* Joins.  J is the context of one join: the two Tables, the key column    *)
(* indexes on each side (0-based) and the non-key column indexes.  An      *)
(* emission [l, r] is one output row: left row l and right row r, -1 for   *)
(* the side that is padded.                                                *)
(***************************************************************************)
colIndex(df, name) == findInStringSlice(name, Names(df))

\* The key validation with the test of the empty key list left out.
JoinKeysErrNoEmpty(df, b, keys) ==
    IF \E k \in 1..Len(keys) : colIndex(df, keys[k]) < 0 \/ colIndex(b, keys[k]) < 0
    THEN "join: key not found"
    ELSE ""

\* The error of the key validation that opens the four keyed joins.
JoinKeysErr(df, b, keys) ==
    IF Len(keys) = 0 THEN "join: keys not specified"
    ELSE IF \E k \in 1..Len(keys) : colIndex(df, keys[k]) < 0 \/ colIndex(b, keys[k]) < 0
         THEN "join: key not found"
    ELSE ""

JoinCtx(df, b, keys) ==
    LET A == [k \in 1..Len(keys) |-> colIndex(df, keys[k])]
        B == [k \in 1..Len(keys) |-> colIndex(b, keys[k])]
    IN  [a |-> df, b |-> b, A |-> A, B |-> B,
         NA |-> Others(df.ncols, A), NB |-> Others(b.ncols, B)]

\* newCols before the row scan: Empty() of the left key columns, of the left
\* non-key columns and of the right non-key columns.
JoinCols(J) ==
    [k \in 1..Len(J.A) |-> SeriesEmpty(J.a.columns[J.A[k] + 1])] \o
    [k \in 1..Len(J.NA) |-> SeriesEmpty(J.a.columns[J.NA[k] + 1])] \o
    [k \in 1..Len(J.NB) |-> SeriesEmpty(J.b.columns[J.NB[k] + 1])]

Cell(df, c, r) == df.columns[c + 1].elements[r + 1]

KeyMatch(J, i, j) ==
    \A k \in 1..Len(J.A) : ElemEq(Cell(J.a, J.A[k], i), Cell(J.b, J.B[k], j))

\* The numbers of S in increasing order.
RECURSIVE SortedSeq(_)
SortedSeq(S) ==
    IF S = {} THEN <<>>
    ELSE LET m == CHOOSE x \in S : \A y \in S : x <= y
         IN  <<m>> \o SortedSeq(S \ {m})

MatchJ(J, i) == SortedSeq({j \in 0..(J.b.nrows - 1) : KeyMatch(J, i, j)})

MatchI(J, j) == SortedSeq({i \in 0..(J.a.nrows - 1) : KeyMatch(J, i, j)})

RECURSIVE InnerEmit(_, _)
InnerEmit(J, i) ==
    IF i >= J.a.nrows THEN <<>>
    ELSE [k \in 1..Len(MatchJ(J, i)) |-> [l |-> i, r |-> MatchJ(J, i)[k]]] \o
         InnerEmit(J, i + 1)

RECURSIVE LeftEmit(_, _)
LeftEmit(J, i) ==
    IF i >= J.a.nrows THEN <<>>
    ELSE (IF Len(MatchJ(J, i)) = 0 THEN <<[l |-> i, r |-> -1]>>
          ELSE [k \in 1..Len(MatchJ(J, i)) |-> [l |-> i, r |-> MatchJ(J, i)[k]]]) \o
         LeftEmit(J, i + 1)

\* yesmatched of RightJoin: by right row, then by left row.
RECURSIVE RightMatched(_, _)
RightMatched(J, j) ==
    IF j >= J.b.nrows THEN <<>>
    ELSE [k \in 1..Len(MatchI(J, j)) |-> [l |-> MatchI(J, j)[k], r |-> j]] \o
         RightMatched(J, j + 1)

RECURSIVE RightUnmatched(_, _)
RightUnmatched(J, j) ==
    IF j >= J.b.nrows THEN <<>>
    ELSE (IF Len(MatchI(J, j)) = 0 THEN <<[l |-> -1, r |-> j]>> ELSE <<>>) \o
         RightUnmatched(J, j + 1)

RECURSIVE CrossEmit(_, _)
CrossEmit(J, i) ==
    IF i >= J.a.nrows THEN <<>>
    ELSE [k \in 1..J.b.nrows |-> [l |-> i, r |-> k - 1]] \o CrossEmit(J, i + 1)

\* The values appended to newCols for one emission, column by column.
RowVals(J, em) ==
    (IF em.l = -1 THEN [k \in 1..Len(J.B) |-> VElem(Cell(J.b, J.B[k], em.r))]
     ELSE [k \in 1..Len(J.A) |-> VElem(Cell(J.a, J.A[k], em.l))]) \o
    [k \in 1..Len(J.NA) |->
        IF em.l = -1 THEN VNil ELSE VElem(Cell(J.a, J.NA[k], em.l))] \o
    [k \in 1..Len(J.NB) |->
        IF em.r = -1 THEN VNil ELSE VElem(Cell(J.b, J.NB[k], em.r))]

RECURSIVE AppendRows(_, _, _)
AppendRows(newCols, J, ems) ==
    IF Len(ems) = 0 THEN newCols
    ELSE AppendRows([c \in 1..Len(newCols) |->
                        SeriesAppend(newCols[c], RowVals(J, ems[1])[c])],
                    J, Tail(ems))

Joined(J, ems) == DFNew(AppendRows(JoinCols(J), J, ems))

DFInnerJoin(df, b, keys) ==
    IF JoinKeysErr(df, b, keys) # "" THEN ErrDF(JoinKeysErr(df, b, keys))
    ELSE LET J == JoinCtx(df, b, keys) IN Joined(J, InnerEmit(J, 0))

DFLeftJoin(df, b, keys) ==
    IF JoinKeysErr(df, b, keys) # "" THEN ErrDF(JoinKeysErr(df, b, keys))
    ELSE LET J == JoinCtx(df, b, keys) IN Joined(J, LeftEmit(J, 0))

DFRightJoin(df, b, keys) ==
    IF JoinKeysErr(df, b, keys) # "" THEN ErrDF(JoinKeysErr(df, b, keys))
    ELSE LET J == JoinCtx(df, b, keys)
         IN  Joined(J, RightMatched(J, 0) \o RightUnmatched(J, 0))

DFOuterJoin(df, b, keys) ==
    IF JoinKeysErr(df, b, keys) # "" THEN ErrDF(JoinKeysErr(df, b, keys))
    ELSE LET J == JoinCtx(df, b, keys)
         IN  Joined(J, LeftEmit(J, 0) \o RightUnmatched(J, 0))

DFCrossJoin(df, b) ==
    LET J == JoinCtx(df, b, <<>>) IN Joined(J, CrossEmit(J, 0))

\* The number of (left row, right row) key comparisons a keyed join makes:
\* the row scan starts only after the key validation has passed.
JoinScanned(df, b, keys) ==
    IF JoinKeysErr(df, b, keys) # "" THEN 0 ELSE df.nrows * b.nrows

(***************************************************************************)
(* Idle values of the variables a specification does not use.              *)
(***************************************************************************)
NoDF == [columns |-> <<>>, ncols |-> 0, nrows |-> 0, Err |-> ""]

NoFix == [done |-> FALSE, input |-> <<>>]

NoCmp == [a |-> Zero(IntT), b |-> Zero(IntT), c |-> "", res |-> FALSE, done |-> FALSE]

NoSeries == SeriesNew(VSlice(<<>>), IntT, "")

NoOrd == [ascDone |-> FALSE, asc |-> <<>>, ascSub |-> NoSeries,
          descDone |-> FALSE, desc |-> <<>>, descSub |-> NoSeries]

NoJoin == [a |-> NoDF, b |-> NoDF, keys |-> <<>>, kind |-> "", out |-> NoDF,
           scanned |-> 0, done |-> FALSE]

NoRolling == [Name |-> "", t |-> Float, vals |-> <<>>]

NoCall == [op |-> "", done |-> FALSE, recv |-> NoSeries, idx |-> IxInts(<<>>),
           arg |-> VNil, cmpr |-> "", out |-> NoSeries, p |-> 0, f |-> StatNaN,
           txt |-> "", blocks |-> <<>>, mean |-> NoRolling, sd |-> NoRolling]

NoHandle == [Name |-> "", t |-> IntT, Err |-> "", at |-> 0, len |-> 0]

NoHeap == [mem |-> <<<<>>, <<>>>>, c |-> NoHandle, d |-> NoHandle, copied |-> FALSE,
           last |-> ""]

\* A nil *Groups: no group map, no key columns.
NoGroups == [nil |-> TRUE, Err |-> "", colnames |-> <<>>, groups |-> <<>>]

\* No caller's function of Rapply.
NoFunc == [fn |-> "", a |-> "", b |-> ""]

NoGrp == [op |-> "", recv |-> NoDF, keys |-> <<>>, gps |-> NoGroups, typs |-> <<>>,
          cols |-> <<>>, out |-> NoDF, fault |-> FALSE, rows |-> <<>>, f |-> NoFunc,
          order |-> <<>>, perm |-> <<>>]

\* The elements of the finite set S in some order.
RECURSIVE SetToSeq(_)
SetToSeq(S) ==
    IF S = {} THEN <<>>
    ELSE LET x == CHOOSE y \in S : TRUE IN <<x>> \o SetToSeq(S \ {x})

\* All sequences over S of length at most n.
RECURSIVE SeqsUpTo(_, _)
SeqsUpTo(S, n) ==
    IF n = 0 THEN {<<>>}
    ELSE LET shorter == SeqsUpTo(S, n - 1)
         IN  shorter \cup {Append(q, x) : q \in {r \in shorter : Len(r) = n - 1}, x \in S}

(***************************************************************************)
(* SpecFix: fixColnames applied to every list of at most MaxNames names.   *)
(***************************************************************************)
NameUniverse == {"", "a", "b", "X0", "a_0", "a_1"}

InitFix ==
    /\ namelist \in SeqsUpTo(NameUniverse, MaxNames)
    /\ fixed = NoFix
    /\ tbl = NoDF /\ cmp = NoCmp /\ ser = NoSeries /\ ord = NoOrd
    /\ jn = NoJoin /\ call = NoCall /\ heap = NoHeap /\ grp = NoGrp

FixColnames ==
    /\ ~fixed.done
    /\ namelist' = fixColnames(namelist)
    /\ fixed' = [done |-> TRUE, input |-> namelist]
    /\ UNCHANGED <<tbl, cmp, ser, ord, jn, call, heap, grp>>

NextFix == FixColnames

SpecFix == InitFix /\ [][NextFix]_vars

IsUniqueIn(cn, i) == \A j \in 1..Len(cn) : j # i => cn[j] # cn[i]

\* C3: the fix-up pass keeps the length, leaves no empty and no repeated
\* name, keeps every name that was non-empty and unique, turns every empty
\* name into X<n> and every repeated name into <name>_<n>.
FixColnamesCorrect ==
    fixed.done =>
        LET in == fixed.input
            out == namelist
            N == 0..(2 * Len(in))
        IN  /\ Len(out) = Len(in)
            /\ \A i \in 1..Len(out) : out[i] # ""
            /\ \A i \in 1..Len(out) : IsUniqueIn(out, i)
            /\ \A i \in 1..Len(in) :
                 /\ (in[i] # "" /\ IsUniqueIn(in, i)) => out[i] = in[i]
                 /\ in[i] = "" => \E n \in N : out[i] = "X" \o ToString(n)
                 /\ (in[i] # "" /\ ~IsUniqueIn(in, i)) =>
                        \E n \in N : out[i] = in[i] \o "_" \o ToString(n)

\* An empty name next to an existing X0 and a repeated name next to an
\* existing <name>_0 have been fixed.
FixColnamesWitness ==
    /\ fixed.done
    /\ \E i, j \in 1..Len(fixed.input) :
         fixed.input[i] = "" /\ fixed.input[j] = "X0" /\ namelist[i] = "X1"

FixColnamesWitnessDup ==
    /\ fixed.done
    /\ \E i, j, k \in 1..Len(fixed.input) :
         /\ i < j /\ fixed.input[i] = "a" /\ fixed.input[j] = "a"
         /\ fixed.input[k] = "a_0" /\ namelist[i] = "a_1" /\ namelist[j] = "a_2"

(***************************************************************************)
(* SpecCmp: the six comparisons on every pair of elements that Set builds  *)
(* from the values below, directly or from another element.                *)
(***************************************************************************)
CmpStrings == {"NaN", "1", "a", "true", "1.500000"}

CmpInts == {0, 1, 2}

CmpFloats == {Fin(2), Fin(3), NaN, PInf}

CmpElements1 ==
    UNION {{ElemSet(Zero(t), VStr(v)) : v \in CmpStrings}
           \cup {ElemSet(Zero(t), VInt(v)) : v \in CmpInts}
           \cup {ElemSet(Zero(t), VFloat(v)) : v \in CmpFloats}
           \cup {ElemSet(Zero(t), VBool(v)) : v \in BOOLEAN}
           \cup {ElemSet(Zero(t), VNil)} : t \in Types}

CmpElements ==
    CmpElements1 \cup {ElemSet(Zero(t), VElem(x)) : t \in Types, x \in CmpElements1}

InitCmp ==
    /\ \E a \in CmpElements, b \in CmpElements :
         cmp = [a |-> a, b |-> b, c |-> "", res |-> FALSE, done |-> FALSE]
    /\ tbl = NoDF /\ namelist = <<>> /\ fixed = NoFix
    /\ ser = NoSeries /\ ord = NoOrd /\ jn = NoJoin /\ call = NoCall /\ heap = NoHeap /\ grp = NoGrp

Compared(c, res) ==
    /\ ~cmp.done
    /\ cmp' = [cmp EXCEPT !.c = c, !.res = res, !.done = TRUE]
    /\ UNCHANGED <<tbl, namelist, fixed, ser, ord, jn, call, heap, grp>>

CmpEq == Compared("==", ElemEq(cmp.a, cmp.b))

CmpNeq == Compared("!=", ElemNeq(cmp.a, cmp.b))

CmpLess == Compared("<", ElemLess(cmp.a, cmp.b))

CmpLessEq == Compared("<=", ElemLessEq(cmp.a, cmp.b))

CmpGreater == Compared(">", ElemGreater(cmp.a, cmp.b))

CmpGreaterEq == Compared(">=", ElemGreaterEq(cmp.a, cmp.b))

NextCmp == CmpEq \/ CmpNeq \/ CmpLess \/ CmpLessEq \/ CmpGreater \/ CmpGreaterEq

SpecCmp == InitCmp /\ [][NextCmp]_vars

\* C4: when the left or the right element is missing, every one of the six
\* comparisons returns false.
MissingNeverCompares ==
    (cmp.done /\ (IsNA(cmp.a) \/ IsNA(cmp.b))) => cmp.res = FALSE

\* Neq has been applied to a missing integer and a present text.
MissingNeverComparesWitness ==
    /\ cmp.done /\ cmp.c = "!="
    /\ cmp.a.t = IntT /\ IsNA(cmp.a)
    /\ cmp.b.t = String /\ ~IsNA(cmp.b) /\ cmp.b.e.s = "1"

(***************************************************************************)
(* SpecOrder: Order(false) and Order(true) of every Series of each kind    *)
(* with at most MaxLen elements, each followed by Subset on its result.    *)
(***************************************************************************)
OrderInputs(t) ==
    CASE t = String -> {"a", "b", "NaN"}
      [] t = IntT -> {"1", "2", "NaN"}
      [] t = Float -> {"1.5", "2", "NaN"}
      [] t = Bool -> {"true", "false", "NaN"}

StrSlice(q) == VSlice([i \in 1..Len(q) |-> VStr(q[i])])

InitOrder ==
    /\ \E t \in Types : \E q \in SeqsUpTo(OrderInputs(t), MaxLen) :
           ser = SeriesNew(StrSlice(q), t, "x")
    /\ ord = NoOrd
    /\ tbl = NoDF /\ namelist = <<>> /\ fixed = NoFix /\ cmp = NoCmp
    /\ jn = NoJoin /\ call = NoCall /\ heap = NoHeap /\ grp = NoGrp

OrderAscending ==
    /\ ~ord.ascDone
    /\ ord' = [ord EXCEPT !.ascDone = TRUE,
                          !.asc = Order(ser, FALSE),
                          !.ascSub = SeriesSubset(ser, IxInts(Order(ser, FALSE)))]
    /\ UNCHANGED <<tbl, namelist, fixed, cmp, ser, jn, call, heap, grp>>

OrderDescending ==
    /\ ~ord.descDone
    /\ ord' = [ord EXCEPT !.descDone = TRUE,
                          !.desc = Order(ser, TRUE),
                          !.descSub = SeriesSubset(ser, IxInts(Order(ser, TRUE)))]
    /\ UNCHANGED <<tbl, namelist, fixed, cmp, ser, jn, call, heap, grp>>

NextOrder == OrderAscending \/ OrderDescending

SpecOrder == InitOrder /\ [][NextOrder]_vars

\* The number of non-missing elements of x.
Present(x) == Len(IdxWhere(x, FALSE, SeriesLen(x)))

\* idx is what Order(reverse) must return for x.
IsOrderOf(x, idx, reverse) ==
    LET n == SeriesLen(x)
        k == Present(x)
        el(p) == x.elements[idx[p] + 1]
    IN  /\ Len(idx) = n
        /\ \A i \in 0..(n - 1) : \E p \in 1..n : idx[p] = i
        /\ \A p \in 1..k : ~IsNA(el(p))
        /\ \A p \in (k + 1)..n : IsNA(el(p))
        /\ \A p, q \in 1..k : p < q =>
              /\ IF reverse THEN ~ElemLess(el(p), el(q)) ELSE ~ElemLess(el(q), el(p))
              /\ (~ElemLess(el(p), el(q)) /\ ~ElemLess(el(q), el(p))) => idx[p] < idx[q]
        /\ \A p, q \in (k + 1)..n : p < q => idx[p] < idx[q]

\* C5: Order(reverse) is a permutation of 0..Len-1: first the indexes of the
\* non-missing elements sorted by Less (ascending) or its reverse (descending)
\* with equal elements in their original relative order, then the indexes of
\* the missing elements in their original relative order.
OrderIsStablePermutation ==
    /\ ord.ascDone => IsOrderOf(ser, ord.asc, FALSE)
    /\ ord.descDone => IsOrderOf(ser, ord.desc, TRUE)

\* Order(true) has run on a Series holding two equal present elements and a
\* missing element in front of a present one.
OrderIsStablePermutationWitness ==
    /\ ord.descDone /\ ord.ascDone
    /\ \E i, j \in 1..SeriesLen(ser) :
          /\ i < j /\ ~IsNA(ser.elements[i]) /\ ser.elements[i] = ser.elements[j]
    /\ \E i, j \in 1..SeriesLen(ser) :
          i < j /\ IsNA(ser.elements[i]) /\ ~IsNA(ser.elements[j])

\* C6: Subset(Order(false)) is sorted ascending by Less with the missing
\* values last, and Subset(Order(true)) is the same Series with its prefix of
\* non-missing values reversed.
SubsetOfOrderSorted ==
    LET k == Present(ser)
        n == SeriesLen(ser)
        a == ord.ascSub.elements
    IN  /\ ord.ascDone =>
              /\ ord.ascSub.Err = "" /\ Len(a) = n
              /\ \A p \in 1..k : ~IsNA(a[p])
              /\ \A p \in (k + 1)..n : IsNA(a[p])
              /\ \A p, q \in 1..k : p < q => ~ElemLess(a[q], a[p])
        /\ (ord.ascDone /\ ord.descDone) =>
              /\ ord.descSub.Err = ""
              /\ ord.descSub.elements = Rev(SubSeq(a, 1, k)) \o SubSeq(a, k + 1, n)

\* Both orders have been taken of a Series with two different present values
\* and a missing value.
SubsetOfOrderSortedWitness ==
    /\ ord.ascDone /\ ord.descDone
    /\ HasNaN(ser)
    /\ \E i, j \in 1..SeriesLen(ser) :
          ElemLess(ser.elements[i], ser.elements[j])

(***************************************************************************)
(* Spec: one Table, built by New and then transformed by the operations of *)
(* the DataFrame.  The operands of the operations come from small fixed    *)
(* sets; a step is taken only when its result fits MaxCols, MaxRows,       *)
(* MaxCells and MaxNameLen.                                                *)
(***************************************************************************)
SpecContents == {<<>>, <<"1">>, <<"1", "1">>}

SpecNames == {"a", "b", ""}

SpecSeries == {SeriesNew(StrSlice(q), IntT, n) : q \in SpecContents, n \in SpecNames}

\* The columns of the operand Tables: <<name, number of rows>> each.
JoinShapes == {<<<<"a", 1>>>>, <<<<"a", 2>>, <<"b", 2>>>>, <<<<"b", 1>>>>}

SpecShapes == JoinShapes \cup {<<<<"a", 0>>>>, <<>>}

TableOf(d) ==
    DFNew([i \in 1..Len(d) |->
              SeriesNew(StrSlice([k \in 1..d[i][2] |-> "1"]), IntT, d[i][1])])

SpecTables == {TableOf(d) : d \in SpecShapes}

JoinTables == {TableOf(d) : d \in JoinShapes}

Operands == SpecTables \cup {tbl}

Fits(t) ==
    /\ t.ncols <= MaxCols
    /\ t.nrows <= MaxRows
    /\ t.ncols * t.nrows <= MaxCells
    /\ \A i \in 1..t.ncols : Len(t.columns[i].Name) <= MaxNameLen

Init ==
    /\ tbl \in {t \in {DFNew(se) : se \in SeqsUpTo(SpecSeries, MaxCols)} : Fits(t)}
    /\ namelist = <<>> /\ fixed = NoFix /\ cmp = NoCmp /\ ser = NoSeries
    /\ ord = NoOrd /\ jn = NoJoin /\ call = NoCall /\ heap = NoHeap /\ grp = NoGrp

Step(t) ==
    /\ Fits(t)
    /\ tbl' = t
    /\ UNCHANGED <<namelist, fixed, cmp, ser, ord, jn, call, heap, grp>>

Subset ==
    \E q \in {<<>>, <<0>>, <<1, 0>>, <<0, 0>>, <<MaxRows>>} :
        Step(DFSubset(tbl, IxInts(q)))

Select ==
    \/ \E q \in {<<0>>, <<1, 0>>, <<0, 0>>, <<MaxCols>>} :
           Step(DFSelect(tbl, IxInts(q)))
    \/ \E n \in {"a", "b", "z"} : Step(DFSelect(tbl, IxStr(n)))

Drop ==
    \/ \E i \in 0..1 : Step(DFDrop(tbl, IxInt(i)))
    \/ \E n \in {"a", "z"} : Step(DFDrop(tbl, IxStr(n)))

Mutate == \E s \in SpecSeries : Step(DFMutate(tbl, s))

Set ==
    \E o \in SpecTables : \E q \in {<<0>>, <<1, 0>>, <<MaxRows>>} :
        Step(DFSet(tbl, IxInts(q), o))

CBind == \E o \in Operands : Step(DFCBind(tbl, o))

RBind == \E o \in Operands : Step(DFRBind(tbl, o))

Concat == \E o \in Operands : Step(DFConcat(tbl, o))

Capply == \E f \in {"Copy", "Empty", "Present"} : Step(DFCapply(tbl, f))

Rename ==
    \E newname \in {"a", "b"} : \E oldname \in {"a", "b", "z"} :
        Step(DFRename(tbl, newname, oldname))

SetNames ==
    \E cn \in {<<"a">>, <<"a", "a">>, <<"a", "b">>, <<"b", "a">>} :
        Step(DFSetNames(tbl, cn))

SpecKeys == {<<>>, <<"a">>, <<"a", "b">>}

InnerJoin ==
    \E o \in JoinTables : \E keys \in SpecKeys : Step(DFInnerJoin(tbl, o, keys))

LeftJoin ==
    \E o \in JoinTables : \E keys \in SpecKeys : Step(DFLeftJoin(tbl, o, keys))

RightJoin ==
    \E o \in JoinTables : \E keys \in SpecKeys : Step(DFRightJoin(tbl, o, keys))

OuterJoin ==
    \E o \in JoinTables : \E keys \in SpecKeys : Step(DFOuterJoin(tbl, o, keys))

CrossJoin == \E o \in JoinTables : Step(DFCrossJoin(tbl, o))

Next ==
    \/ Subset \/ Select \/ Drop \/ Mutate \/ Set \/ CBind \/ RBind \/ Concat
    \/ Capply \/ Rename \/ SetNames
    \/ InnerJoin \/ LeftJoin \/ RightJoin \/ OuterJoin \/ CrossJoin

Spec == Init /\ [][Next]_vars

\* C1: every error-free Table has all of its columns of the same length, that
\* length is nrows, and ncols is the number of columns.
DimensionsAgree ==
    tbl.Err = "" =>
        /\ tbl.ncols = Len(tbl.columns)
        /\ \A i \in 1..Len(tbl.columns) : SeriesLen(tbl.columns[i]) = tbl.nrows

\* A Table of two columns and two rows, one column padded with a missing
\* value up to the common length.
DimensionsAgreeWitness ==
    /\ tbl.Err = ""
    /\ tbl.ncols = 2 /\ tbl.nrows = 2
    /\ IsNA(tbl.columns[2].elements[1]) /\ ~IsNA(tbl.columns[1].elements[1])
    /\ ~IsNA(tbl.columns[2].elements[2]) /\ IsNA(tbl.columns[1].elements[2])

\* C2: every error-free Table has pairwise distinct column names.
NamesDistinct ==
    tbl.Err = "" =>
        \A i, j \in 1..Len(tbl.columns) :
            i # j => tbl.columns[i].Name # tbl.columns[j].Name

\* C14: once the Table carries an error, every operation called on it returns
\* a Table carrying that same error.
ErrorsPropagate == [][tbl.Err # "" => tbl'.Err = tbl.Err]_vars

(***************************************************************************)
(* SpecJoin: the four keyed joins of a left and a right Table, each with   *)
(* an integer column k and a text column v and at most MaxJoinRows rows,   *)
(* under key lists that are valid, empty, absent or repeated.              *)
(***************************************************************************)
LeftRows == {<<"1", "x">>, <<"1", "y">>, <<"2", "NaN">>, <<"NaN", "x">>}

RightRows == {<<"1", "x">>, <<"2", "NaN">>, <<"NaN", "y">>}

\* New of column k (integer) and column v (text) from a list of rows.
KV(rows) ==
    DFNew(<<SeriesNew(StrSlice([i \in 1..Len(rows) |-> rows[i][1]]), IntT, "k"),
            SeriesNew(StrSlice([i \in 1..Len(rows) |-> rows[i][2]]), String, "v")>>)

JoinKeyLists == {<<>>, <<"k">>, <<"k", "v">>, <<"z">>, <<"k", "k">>}

InitJoin ==
    /\ \E l \in SeqsUpTo(LeftRows, MaxJoinRows) :
       \E r \in SeqsUpTo(RightRows, MaxJoinRows) :
       \E keys \in JoinKeyLists :
           jn = [NoJoin EXCEPT !.a = KV(l), !.b = KV(r), !.keys = keys]
    /\ tbl = NoDF /\ namelist = <<>> /\ fixed = NoFix /\ cmp = NoCmp
    /\ ser = NoSeries /\ ord = NoOrd /\ call = NoCall /\ heap = NoHeap /\ grp = NoGrp

JoinDone(kind, out) ==
    /\ ~jn.done
    /\ jn' = [jn EXCEPT !.kind = kind, !.out = out, !.done = TRUE,
                        !.scanned = JoinScanned(jn.a, jn.b, jn.keys)]
    /\ UNCHANGED <<tbl, namelist, fixed, cmp, ser, ord, call, heap, grp>>

JoinInner == JoinDone("inner", DFInnerJoin(jn.a, jn.b, jn.keys))

JoinLeft == JoinDone("left", DFLeftJoin(jn.a, jn.b, jn.keys))

JoinRight == JoinDone("right", DFRightJoin(jn.a, jn.b, jn.keys))

JoinOuter == JoinDone("outer", DFOuterJoin(jn.a, jn.b, jn.keys))

NextJoin == JoinInner \/ JoinLeft \/ JoinRight \/ JoinOuter

SpecJoin == InitJoin /\ [][NextJoin]_vars

Range(q) == {q[i] : i \in 1..Len(q)}

HasColumn(df, name) == \E c \in 1..df.ncols : df.columns[c].Name = name

KeyAbsent(df, b, keys) ==
    \E k \in 1..Len(keys) : ~HasColumn(df, keys[k]) \/ ~HasColumn(b, keys[k])

KeyRepeated(keys) == \E i, j \in 1..Len(keys) : i # j /\ keys[i] = keys[j]

\* C7 as amended: a keyed join returns an error-carrying Table, without
\* scanning any row, whenever the key list is empty or names a column absent
\* from the left or the right Table.
JoinRejectsBadKeys ==
    (jn.done /\ (Len(jn.keys) = 0 \/ KeyAbsent(jn.a, jn.b, jn.keys))) =>
        (jn.out.Err # "" /\ jn.scanned = 0)

\* LeftJoin has been called on two Tables with rows under an absent key.
JoinRejectsBadKeysWitness ==
    /\ jn.done /\ jn.kind = "left" /\ jn.keys = <<"z">>
    /\ jn.a.nrows > 0 /\ jn.b.nrows > 0
    /\ jn.out.Err # ""

\* C7 as stated: a keyed join returns an error-carrying Table, without
\* scanning any row, whenever the key list is empty, names a column absent
\* from the left or the right Table, or holds the same key name twice.
JoinRejectsBadOrRepeatedKeys ==
    (jn.done /\ (\/ Len(jn.keys) = 0
                 \/ KeyAbsent(jn.a, jn.b, jn.keys)
                 \/ KeyRepeated(jn.keys))) =>
        (jn.out.Err # "" /\ jn.scanned = 0)

\* A key list the claims C8 to C10 call valid.
ValidKeys(df, b, keys) ==
    Len(keys) > 0 /\ ~KeyAbsent(df, b, keys) /\ ~KeyRepeated(keys)

ColNamed(df, name) == CHOOSE c \in 1..df.ncols : df.columns[c].Name = name

\* The positions of the columns of df that are not key columns, in order.
NonKeys(df, keys) ==
    SortedSeq({c \in 1..df.ncols : df.columns[c].Name \notin Range(keys)})

\* Left row i and right row j (0-based) are Eq on every key column.
Matches(df, b, keys, i, j) ==
    \A k \in 1..Len(keys) :
        ElemEq(df.columns[ColNamed(df, keys[k])].elements[i + 1],
               b.columns[ColNamed(b, keys[k])].elements[j + 1])

Pairs(df, b, keys) ==
    {p \in (0..(df.nrows - 1)) \X (0..(b.nrows - 1)) :
        Matches(df, b, keys, p[1], p[2])}

\* Two elements hold the same value: the same kind, both missing or both
\* present with the same payload.
SameValue(x, y) ==
    /\ x.t = y.t
    /\ IsNA(x) = IsNA(y)
    /\ ~IsNA(x) => x.e = y.e

\* x is a missing element.
IsMissing(x) == IsNA(x)

\* Row r (1-based) of out holds the elements of the sequence cells.
RowHolds(out, r, cells) ==
    /\ out.ncols = Len(cells)
    /\ \A c \in 1..Len(cells) :
          /\ r <= SeriesLen(out.columns[c])
          /\ SameValue(out.columns[c].elements[r], cells[c])

\* The cells of the row pairing left row i with right row j.
PairCells(df, b, keys, i, j) ==
    [k \in 1..Len(keys) |-> df.columns[ColNamed(df, keys[k])].elements[i + 1]] \o
    [k \in 1..Len(NonKeys(df, keys)) |->
        df.columns[NonKeys(df, keys)[k]].elements[i + 1]] \o
    [k \in 1..Len(NonKeys(b, keys)) |->
        b.columns[NonKeys(b, keys)[k]].elements[j + 1]]

\* C8: InnerJoin has exactly one row for each pair (left row i, right row j)
\* in which every key-column pair is Eq, by increasing i and then increasing
\* j, and the row holds the left key values, the left non-key values of row
\* i and the right non-key values of row j.
InnerJoinRows ==
    (/\ jn.done /\ jn.kind = "inner"
     /\ jn.a.Err = "" /\ jn.b.Err = ""
     /\ ValidKeys(jn.a, jn.b, jn.keys)) =>
        LET P == Pairs(jn.a, jn.b, jn.keys)
            rank(p) == 1 + Cardinality({q \in P :
                           q[1] < p[1] \/ (q[1] = p[1] /\ q[2] < p[2])})
        IN  /\ jn.out.Err = ""
            /\ jn.out.nrows = Cardinality(P)
            /\ \A p \in P :
                  RowHolds(jn.out, rank(p),
                           PairCells(jn.a, jn.b, jn.keys, p[1], p[2]))

\* The left rows (0-based) that match no right row.
UnmatchedLeft(df, b, keys) ==
    {i \in 0..(df.nrows - 1) :
        \A j \in 0..(b.nrows - 1) : ~Matches(df, b, keys, i, j)}

UnmatchedRight(df, b, keys) ==
    {j \in 0..(b.nrows - 1) :
        \A i \in 0..(df.nrows - 1) : ~Matches(df, b, keys, i, j)}

\* Row r of out is row q of the Table inner.
SameRow(out, r, inner, q) ==
    /\ out.ncols = inner.ncols
    /\ \A c \in 1..out.ncols :
          SameValue(out.columns[c].elements[r], inner.columns[c].elements[q])

\* Row r of out holds left row i and a missing value in every right non-key
\* column.
LeftPadded(out, r, df, b, keys, i) ==
    LET nk == Len(keys)
        na == Len(NonKeys(df, keys))
        nb == Len(NonKeys(b, keys))
    IN  /\ out.ncols = nk + na + nb
        /\ \A k \in 1..nk :
              SameValue(out.columns[k].elements[r],
                        df.columns[ColNamed(df, keys[k])].elements[i + 1])
        /\ \A k \in 1..na :
              SameValue(out.columns[nk + k].elements[r],
                        df.columns[NonKeys(df, keys)[k]].elements[i + 1])
        /\ \A k \in 1..nb : IsMissing(out.columns[nk + na + k].elements[r])

\* C9: LeftJoin has exactly the rows of InnerJoin plus one row for each left
\* row that matches no right row, holding the left row's values and a missing
\* value in every right non-key column; its Nrow is InnerJoin's Nrow plus the
\* number of unmatched left rows.
LeftJoinRows ==
    (/\ jn.done /\ jn.kind = "left"
     /\ jn.a.Err = "" /\ jn.b.Err = ""
     /\ ValidKeys(jn.a, jn.b, jn.keys)) =>
        LET inner == DFInnerJoin(jn.a, jn.b, jn.keys)
            P == Pairs(jn.a, jn.b, jn.keys)
            U == UnmatchedLeft(jn.a, jn.b, jn.keys)
            before(i) == Cardinality({q \in P : q[1] < i}) +
                         Cardinality({u \in U : u < i})
            innerRank(p) == 1 + Cardinality({q \in P :
                                q[1] < p[1] \/ (q[1] = p[1] /\ q[2] < p[2])})
            within(p) == 1 + Cardinality({q \in P : q[1] = p[1] /\ q[2] < p[2]})
        IN  /\ jn.out.Err = "" /\ inner.Err = ""
            /\ jn.out.nrows = inner.nrows + Cardinality(U)
            /\ jn.out.nrows >= inner.nrows
            /\ \A p \in P :
                  SameRow(jn.out, before(p[1]) + within(p), inner, innerRank(p))
            /\ \A i \in U :
                  LeftPadded(jn.out, before(i) + 1, jn.a, jn.b, jn.keys, i)

\* Row r of out holds the key values and the non-key values of right row j
\* and a missing value in every left non-key column.
RightPadded(out, r, df, b, keys, j) ==
    LET nk == Len(keys)
        na == Len(NonKeys(df, keys))
        nb == Len(NonKeys(b, keys))
    IN  /\ out.ncols = nk + na + nb
        /\ \A k \in 1..nk :
              SameValue(out.columns[k].elements[r],
                        b.columns[ColNamed(b, keys[k])].elements[j + 1])
        /\ \A k \in 1..na : IsMissing(out.columns[nk + k].elements[r])
        /\ \A k \in 1..nb :
              SameValue(out.columns[nk + na + k].elements[r],
                        b.columns[NonKeys(b, keys)[k]].elements[j + 1])

\* C10: RightJoin has one row per matching (left row, right row) pair and one
\* row for each right row that matches no left row, holding the right row's
\* key values in the key columns, a missing value in every left non-key
\* column and the right row's non-key values.
RightJoinRows ==
    (/\ jn.done /\ jn.kind = "right"
     /\ jn.a.Err = "" /\ jn.b.Err = ""
     /\ ValidKeys(jn.a, jn.b, jn.keys)) =>
        LET P == Pairs(jn.a, jn.b, jn.keys)
            U == UnmatchedRight(jn.a, jn.b, jn.keys)
        IN  /\ jn.out.Err = ""
            /\ jn.out.nrows = Cardinality(P) + Cardinality(U)
            /\ \A j \in U :
                  RightPadded(jn.out,
                              Cardinality(P) + 1 + Cardinality({u \in U : u < j}),
                              jn.a, jn.b, jn.keys, j)

\* Row r of out holds the key values of right row j and a missing value in
\* every left non-key column.
RightKeyPadded(out, r, df, b, keys, j) ==
    LET nk == Len(keys)
        na == Len(NonKeys(df, keys))
    IN  /\ out.ncols = nk + na + Len(NonKeys(b, keys))
        /\ \A k \in 1..nk :
              SameValue(out.columns[k].elements[r],
                        b.columns[ColNamed(b, keys[k])].elements[j + 1])
        /\ \A k \in 1..na : IsMissing(out.columns[nk + k].elements[r])

\* Row r of out holds a missing value in every right non-key column.
RightMissing(out, r, df, b, keys) ==
    LET nk == Len(keys)
        na == Len(NonKeys(df, keys))
        nb == Len(NonKeys(b, keys))
    IN  /\ out.ncols = nk + na + nb
        /\ \A k \in 1..nb : IsMissing(out.columns[nk + na + k].elements[r])

\* C11: OuterJoin has InnerJoin's Nrow plus the unmatched left rows plus the
\* unmatched right rows; the left rows come first, each with one row per
\* match or, unmatched, one row with a missing value in every right non-key
\* column; then each unmatched right row has one row with its key values
\* and a missing value in every left non-key column.
OuterJoinRows ==
    (/\ jn.done /\ jn.kind = "outer"
     /\ jn.a.Err = "" /\ jn.b.Err = ""
     /\ ValidKeys(jn.a, jn.b, jn.keys)) =>
        LET inner == DFInnerJoin(jn.a, jn.b, jn.keys)
            P == Pairs(jn.a, jn.b, jn.keys)
            UL == UnmatchedLeft(jn.a, jn.b, jn.keys)
            UR == UnmatchedRight(jn.a, jn.b, jn.keys)
            before(i) == Cardinality({q \in P : q[1] < i}) +
                         Cardinality({u \in UL : u < i})
        IN  /\ jn.out.Err = "" /\ inner.Err = ""
            /\ jn.out.nrows = inner.nrows + Cardinality(UL) + Cardinality(UR)
            /\ inner.nrows = Cardinality(P)
            /\ \A i \in UL :
                  RightMissing(jn.out, before(i) + 1, jn.a, jn.b, jn.keys)
            /\ \A j \in UR :
                  RightKeyPadded(jn.out,
                                 Cardinality(P) + Cardinality(UL) + 1 +
                                     Cardinality({u \in UR : u < j}),
                                 jn.a, jn.b, jn.keys, j)

\* Row i (0-based) of df has a missing value in some key column.
MissingKey(df, keys, i) ==
    \E k \in 1..Len(keys) : IsNA(df.columns[ColNamed(df, keys[k])].elements[i + 1])

MissingKeyRows(df, keys) == {i \in 0..(df.nrows - 1) : MissingKey(df, keys, i)}

\* Row r of out has a missing value in every left non-key column.
LeftMissing(out, r, df, b, keys) ==
    LET nk == Len(keys)
        na == Len(NonKeys(df, keys))
    IN  /\ out.ncols = nk + na + Len(NonKeys(b, keys))
        /\ \A k \in 1..na : IsMissing(out.columns[nk + k].elements[r])

\* C12: a row with a missing value in a key column matches no row of the
\* other Table, not even one whose key is missing too: InnerJoin has no row
\* with a missing key value, and LeftJoin, RightJoin and OuterJoin have
\* exactly one row for such a row, padded with missing values on the other
\* side.
MissingKeyNeverMatches ==
    (/\ jn.done
     /\ jn.a.Err = "" /\ jn.b.Err = ""
     /\ ValidKeys(jn.a, jn.b, jn.keys)) =>
        LET P == Pairs(jn.a, jn.b, jn.keys)
            UL == UnmatchedLeft(jn.a, jn.b, jn.keys)
            UR == UnmatchedRight(jn.a, jn.b, jn.keys)
            ML == MissingKeyRows(jn.a, jn.keys)
            MR == MissingKeyRows(jn.b, jn.keys)
            before(i) == Cardinality({q \in P : q[1] < i}) +
                         Cardinality({u \in UL : u < i})
            after(j) == Cardinality({u \in UR : u < j})
            np == Cardinality(P)
            nl == Cardinality(UL)
        IN  /\ jn.out.Err = ""
            /\ ML \subseteq UL /\ MR \subseteq UR
            /\ jn.kind = "inner" =>
                  /\ jn.out.nrows = np
                  /\ \A r \in 1..jn.out.nrows : \A k \in 1..Len(jn.keys) :
                        ~IsNA(jn.out.columns[k].elements[r])
            /\ jn.kind = "left" =>
                  /\ jn.out.nrows = np + nl
                  /\ \A i \in ML :
                        RightMissing(jn.out, before(i) + 1, jn.a, jn.b, jn.keys)
            /\ jn.kind = "right" =>
                  /\ jn.out.nrows = np + Cardinality(UR)
                  /\ \A j \in MR :
                        LeftMissing(jn.out, np + 1 + after(j), jn.a, jn.b, jn.keys)
            /\ jn.kind = "outer" =>
                  /\ jn.out.nrows = np + nl + Cardinality(UR)
                  /\ \A i \in ML :
                        RightMissing(jn.out, before(i) + 1, jn.a, jn.b, jn.keys)
                  /\ \A j \in MR :
                        LeftMissing(jn.out, np + nl + 1 + after(j),
                                    jn.a, jn.b, jn.keys)

\* OuterJoin on the key k of a left and a right Table that both have a row
\* whose k is missing: each of the two rows has its own padded row.
MissingKeyNeverMatchesWitness ==
    /\ jn.done /\ jn.kind = "outer" /\ jn.keys = <<"k">>
    /\ jn.out.Err = ""
    /\ MissingKeyRows(jn.a, jn.keys) # {} /\ MissingKeyRows(jn.b, jn.keys) # {}
    /\ jn.out.nrows = jn.a.nrows + jn.b.nrows

(***************************************************************************)
(* SpecCross: CrossJoin of a left and a right Table of at most MaxJoinRows *)
(* rows each.                                                              *)
(***************************************************************************)
InitCross ==
    /\ \E l \in SeqsUpTo(LeftRows, MaxJoinRows) :
       \E r \in SeqsUpTo(RightRows, MaxJoinRows) :
           jn = [NoJoin EXCEPT !.a = KV(l), !.b = KV(r)]
    /\ tbl = NoDF /\ namelist = <<>> /\ fixed = NoFix /\ cmp = NoCmp
    /\ ser = NoSeries /\ ord = NoOrd /\ call = NoCall /\ heap = NoHeap /\ grp = NoGrp

JoinCross ==
    /\ ~jn.done
    /\ jn' = [jn EXCEPT !.kind = "cross", !.out = DFCrossJoin(jn.a, jn.b),
                        !.done = TRUE, !.scanned = jn.a.nrows * jn.b.nrows]
    /\ UNCHANGED <<tbl, namelist, fixed, cmp, ser, ord, call, heap, grp>>

NextCross == JoinCross

SpecCross == InitCross /\ [][NextCross]_vars

\* C13: CrossJoin of two error-free Tables has Nrow = a.Nrow * b.Nrow and
\* Ncol = a.Ncol + b.Ncol, and its row i * b.Nrow + j (0-based) holds the
\* values of left row i followed by the values of right row j.
CrossJoinRows ==
    (jn.done /\ jn.kind = "cross" /\ jn.a.Err = "" /\ jn.b.Err = "") =>
        /\ jn.out.Err = ""
        /\ jn.out.nrows = jn.a.nrows * jn.b.nrows
        /\ jn.out.ncols = jn.a.ncols + jn.b.ncols
        /\ \A i \in 0..(jn.a.nrows - 1) : \A j \in 0..(jn.b.nrows - 1) :
              RowHolds(jn.out, i * jn.b.nrows + j + 1,
                       [c \in 1..jn.a.ncols |-> jn.a.columns[c].elements[i + 1]] \o
                       [c \in 1..jn.b.ncols |-> jn.b.columns[c].elements[j + 1]])

(***************************************************************************)
(* SpecColumn: one call of Subset, Set, Compare or a reduction on a       *)
(* Column of at most MaxRows elements.  ser is the receiver as the caller  *)
(* holds it (Set writes through the shared backing array), call.recv the   *)
(* receiver before the call, call.out the Column returned, and call.f and  *)
(* call.txt the float64 or string a reduction returned.                    *)
(***************************************************************************)
ColumnKinds == {IntT, String}

ColumnInputs == {"1", "2", "NaN"}

Columns(n) ==
    {SeriesNew(StrSlice(q), t, "x") : t \in ColumnKinds, q \in SeqsUpTo(ColumnInputs, n)}

\* A Column that carries an error.
Errored == [Name |-> "x", elements |-> <<>>, t |-> IntT, Err |-> "earlier error"]

Positions == (0 - 1)..MaxRows

IndexLists == SeqsUpTo(Positions, 2)

\* Integer-kind index Columns, some holding a missing value.
IndexColumns ==
    {SeriesNew(StrSlice(q), IntT, "i") : q \in SeqsUpTo({"0", "2", "NaN"}, 2)}

Masks == SeqsUpTo(BOOLEAN, MaxRows)

InitColumn ==
    /\ ser \in Columns(MaxRows) \cup {Errored}
    /\ call = NoCall /\ heap = NoHeap /\ grp = NoGrp
    /\ tbl = NoDF /\ namelist = <<>> /\ fixed = NoFix /\ cmp = NoCmp
    /\ ord = NoOrd /\ jn = NoJoin

Called(op, ix, arg, cmpr, out, after) ==
    /\ call' = [op |-> op, done |-> TRUE, recv |-> ser, idx |-> ix, arg |-> arg,
                cmpr |-> cmpr, out |-> out, p |-> call.p, f |-> call.f,
                txt |-> call.txt, blocks |-> call.blocks, mean |-> call.mean,
                sd |-> call.sd]
    /\ ser' = after
    /\ UNCHANGED <<tbl, namelist, fixed, cmp, ord, jn, heap, grp>>

SubsetBy(ix) == Called("Subset", ix, ix, "", SeriesSubset(ser, ix), ser)

\* The indexes handed to Set: []int, Int Columns and []bool; Subset also
\* takes a single int.
SetIndexes ==
    SetToSeq({IxInts(q) : q \in IndexLists}) \o
    SetToSeq({IxSeries(x) : x \in IndexColumns}) \o
    SetToSeq({IxBools(m) : m \in Masks})

SubsetIndexes == SetIndexes \o SetToSeq({IxInt(i) : i \in Positions})

ColSubset ==
    /\ ~call.done
    /\ \E k \in 1..Len(SubsetIndexes) : SubsetBy(SubsetIndexes[k])

\* The Columns handed to Set as new values.
NewValues ==
    {SeriesNew(StrSlice(q), t, "x") : t \in ColumnKinds, q \in SeqsUpTo({"2", "NaN"}, 2)}
        \cup {Errored}

\* The stored elements are overwritten through the shared backing array; the
\* error is set on the returned Column only.
SetBy(ix, x) ==
    LET r == SeriesSet(ser, ix, x)
    IN  Called("Set", ix, x, "", r, [ser EXCEPT !.elements = r.elements])

ColSet ==
    /\ ~call.done
    /\ \E x \in NewValues : \E k \in 1..Len(SetIndexes) : SetBy(SetIndexes[k], x)

Relational == {"==", "!=", ">", ">=", "<", "<="}
Comparators == Relational \cup {"in", "?"}

CompareBy(c, v) == Called("Compare", call.idx, v, c, SeriesCompare(ser, c, v), ser)

\* s.Compare(comparator, comparando) with a string, an int, a []string or a
\* Column as comparando.
Comparandos ==
    SetToSeq({VStr(u) : u \in ColumnInputs}) \o
    SetToSeq({VInt(n) : n \in 1..2}) \o
    SetToSeq({StrSlice(q) : q \in SeqsUpTo(ColumnInputs, 2)}) \o
    SetToSeq({VSeries(x) : x \in NewValues})

ColCompare ==
    /\ ~call.done
    /\ \E c \in Comparators : \E k \in 1..Len(Comparandos) :
           CompareBy(c, Comparandos[k])

Reductions == {"Sum", "Mean", "Median", "StdDev", "Max", "Min"}

Reduce(op, x) ==
    CASE op = "Sum" -> SeriesSum(x)
      [] op = "Mean" -> SeriesMean(x)
      [] op = "Median" -> SeriesMedian(x)
      [] op = "StdDev" -> SeriesStdDev(x)
      [] op = "Max" -> SeriesMax(x)
      [] op = "Min" -> SeriesMin(x)

\* Quantile is called with p = ph / 2.
Reduced(op, ph, f, txt) ==
    /\ call' = [call EXCEPT !.op = op, !.done = TRUE, !.recv = ser, !.p = ph,
                            !.f = f, !.txt = txt]
    /\ UNCHANGED <<tbl, namelist, fixed, cmp, ser, ord, jn, heap, grp>>

\* The reductions of a Column to one float64, and MaxStr and MinStr.
ColReduce ==
    /\ ~call.done
    /\ \/ \E op \in Reductions : Reduced(op, 0, Reduce(op, ser), "")
       \/ \E ph \in 0..2 : \E r \in SeriesQuantile(ser, ph) : Reduced("Quantile", ph, r, "")
       \/ Reduced("MaxStr", 0, call.f, SeriesMaxStr(ser))
       \/ Reduced("MinStr", 0, call.f, SeriesMinStr(ser))

\* The window sizes, from below zero to beyond the longest Column.
Windows == (0 - 1)..(MaxRows + 1)

\* r := s.Rolling(window), then r.getBlocks(), r.Mean() and r.StdDev().
ColRolling ==
    /\ ~call.done
    /\ \E window \in Windows :
           call' = [call EXCEPT !.op = "Rolling", !.done = TRUE, !.recv = ser,
                                !.p = window,
                                !.blocks = getBlocks(ser, window),
                                !.mean = RollingMean(ser, window),
                                !.sd = RollingStdDev(ser, window)]
    /\ UNCHANGED <<tbl, namelist, fixed, cmp, ser, ord, jn, heap, grp>>

NextColumn == ColSubset \/ ColSet \/ ColCompare \/ ColReduce \/ ColRolling

SpecColumn == InitColumn /\ [][NextColumn]_vars

\* The integer indexes given by ix, <<>> when ix is not an integer index, an
\* integer sequence or an integer-kind Column without a missing value.
GivenInts(ix) ==
    CASE ix.g = "ints" -> ix.v
      [] ix.g = "int" -> <<ix.v>>
      [] ix.g = "Series" ->
           IF ix.v.Err = "" /\ ix.v.t = IntT /\ ~HasNaN(ix.v)
           THEN [k \in 1..SeriesLen(ix.v) |-> ix.v.elements[k].e.n]
           ELSE <<>>
      [] OTHER -> <<>>

\* Some integer index given by ix is outside [0, n).
OutOfRange(ix, n) ==
    \E k \in 1..Len(GivenInts(ix)) : GivenInts(ix)[k] < 0 \/ GivenInts(ix)[k] >= n

\* C15: Subset with an integer index outside [0, Len) returns a Column that
\* carries an error, and that error is no run-time fault.
SubsetChecksRange ==
    (/\ call.done /\ call.op = "Subset" /\ call.recv.Err = ""
     /\ OutOfRange(call.idx, SeriesLen(call.recv))) =>
        (call.out.Err # "" /\ call.out.Err # PanicErr)

\* The positions an index names on a Column of n elements: [ok, idx], ok
\* FALSE for a mask of another length than n, for an index Column holding a
\* missing value and for an index of no supported form.
Resolved(ix, n) ==
    CASE ix.g = "ints" -> [ok |-> TRUE, idx |-> ix.v]
      [] ix.g = "int" -> [ok |-> TRUE, idx |-> <<ix.v>>]
      [] ix.g = "bools" ->
           IF Len(ix.v) = n THEN [ok |-> TRUE, idx |-> TruePositions(ix.v)]
           ELSE [ok |-> FALSE, idx |-> <<>>]
      [] ix.g = "Series" ->
           IF ix.v.Err = "" /\ ix.v.t = IntT /\ ~HasNaN(ix.v)
           THEN [ok |-> TRUE, idx |-> GivenInts(ix)]
           ELSE [ok |-> FALSE, idx |-> <<>>]
      [] OTHER -> [ok |-> FALSE, idx |-> <<>>]

\* The element y as an element of kind t: missing when y is missing.
Coerced(t, y) ==
    IF IsNA(y) THEN Missing(Zero(t)) ELSE ElemSet(Zero(t), VElem(y))

\* C16: Set returns an error-carrying Column, without a fault, when the new
\* Column carries an error, when a mask has another length than the
\* receiver, when the number of positions differs from the new Column's
\* length or when a position is outside [0, Len); otherwise the returned
\* Column has the receiver's length, position idx[k] holds the k-th new
\* element coerced to the receiver's kind (the last k for a repeated
\* position) and every other position holds what it held.
SetContract ==
    (call.done /\ call.op = "Set" /\ call.recv.Err = "") =>
        LET n == SeriesLen(call.recv)
            r == Resolved(call.idx, n)
            nv == call.arg
            wrong == \/ nv.Err # ""
                     \/ (call.idx.g = "bools" /\ Len(call.idx.v) # n)
                     \/ (r.ok /\ Len(r.idx) # SeriesLen(nv))
                     \/ (r.ok /\ \E k \in 1..Len(r.idx) : r.idx[k] < 0 \/ r.idx[k] >= n)
            last(p) == CHOOSE k \in 1..Len(r.idx) :
                          r.idx[k] = p /\ \A j \in (k + 1)..Len(r.idx) : r.idx[j] # p
        IN  /\ wrong => (call.out.Err # "" /\ call.out.Err # PanicErr)
            /\ (~wrong /\ r.ok) =>
                  /\ call.out.Err = ""
                  /\ SeriesLen(call.out) = n
                  /\ \A p \in 0..(n - 1) :
                        IF \E k \in 1..Len(r.idx) : r.idx[k] = p
                        THEN SameValue(call.out.elements[p + 1],
                                       Coerced(call.recv.t, nv.elements[last(p)]))
                        ELSE call.out.elements[p + 1] = call.recv.elements[p + 1]

CompareCalled == call.done /\ call.op = "Compare" /\ call.recv.Err = ""

\* The result is an error-free yes/no Column of n elements whose
\* i-th element is hit(i).
YesNo(out, n, hit(_)) ==
    /\ out.Err = ""
    /\ out.t = Bool
    /\ SeriesLen(out) = n
    /\ \A i \in 1..n : ~IsNA(out.elements[i]) /\ out.elements[i].e.b = hit(i)

\* C17: a relational comparison against an operand that coerces to length 1
\* compares every element with that one value, against an operand of the
\* receiver's length compares position by position, and against any other
\* length returns a Column carrying an error; the membership comparison takes
\* an operand of any length and answers, for each element, whether it equals
\* some operand element.
CompareShapes ==
    CompareCalled =>
        LET s == call.recv
            n == SeriesLen(s)
            comp == SeriesNew(call.arg, s.t, "")
            m == SeriesLen(comp)
            rel(i, j) == compareElements(s.elements[i], comp.elements[j], call.cmpr).v
            one(i) == rel(i, 1)
            pair(i) == rel(i, i)
            among(i) == \E j \in 1..m : ElemEq(s.elements[i], comp.elements[j])
        IN  /\ (call.cmpr \in Relational /\ m = 1) => YesNo(call.out, n, one)
            /\ (call.cmpr \in Relational /\ m # 1 /\ m = n) => YesNo(call.out, n, pair)
            /\ (call.cmpr \in Relational /\ m # 1 /\ m # n) => call.out.Err # ""
            /\ call.cmpr = "in" => YesNo(call.out, n, among)

\* A Column of two elements compared with "<" against the single value 2:
\* the broadcast answers yes for 1 and no for 2.
CompareShapesWitness ==
    /\ CompareCalled
    /\ call.cmpr = "<"
    /\ call.recv.t = IntT
    /\ SeriesLen(call.recv) = 2
    /\ call.arg.g = "int"
    /\ call.arg.v = 2
    /\ call.out.Err = ""
    /\ SeriesLen(call.out) = 2
    /\ call.out.elements[1].e.b
    /\ ~call.out.elements[2].e.b

NoMissing(x) == \A i \in 1..SeriesLen(x) : ~IsNA(x.elements[i])

\* C18: Sum, Mean, Median, StdDev, Quantile, Max and Min return NaN on an
\* empty Column and on a text Column, whatever the text values are; the
\* lexicographic maximum and minimum of a text Column are returned as text.
ReductionsNaN ==
    LET s == call.recv
    IN  /\ (/\ call.done
            /\ call.op \in Reductions \cup {"Quantile"}
            /\ (SeriesLen(s) = 0 \/ s.t = String))
           => call.f.c = "nan"
        /\ (/\ call.done
            /\ call.op \in {"MaxStr", "MinStr"}
            /\ s.t = String /\ SeriesLen(s) > 0 /\ NoMissing(s))
           => \E i \in 1..SeriesLen(s) :
                  /\ call.txt = s.elements[i].e.s
                  /\ \A j \in 1..SeriesLen(s) :
                         IF call.op = "MaxStr"
                         THEN ~StrLess(call.txt, s.elements[j].e.s)
                         ELSE ~StrLess(s.elements[j].e.s, call.txt)

(***************************************************************************)
(* SpecSelect: a Table built by New, renamed any number of times, and      *)
(* then selected by its own list of names.                                 *)
(***************************************************************************)
\* t.Select(t.Names())
SelectNames ==
    /\ ~call.done
    /\ tbl' = DFSelect(tbl, IxStrs(Names(tbl)))
    /\ call' = [call EXCEPT !.op = "Select", !.done = TRUE]
    /\ UNCHANGED <<namelist, fixed, cmp, ser, ord, jn, heap, grp>>

Renamed == ~call.done /\ (Rename \/ SetNames)

NextSelect == Renamed \/ SelectNames

SpecSelect == Init /\ [][NextSelect]_vars

\* C19: for an error-free Table t, t.Select(t.Names()) has the columns of t in
\* the same order, with the same names, kinds and values.
SelectNamesReproduces ==
    [][(~call.done /\ call'.done /\ tbl.Err = "")
           => (/\ tbl'.Err = ""
               /\ tbl'.ncols = tbl.ncols /\ tbl'.nrows = tbl.nrows
               /\ tbl'.columns = tbl.columns)]_vars

(***************************************************************************)
(* SpecCopy: a Column c and its copy d as the caller holds them.  A handle *)
(* is the Series struct: name, kind, error and the slice header, at being  *)
(* the backing array and len the length; heap.mem holds the backing        *)
(* arrays in use, an array's length being its capacity.                    *)
(***************************************************************************)
\* The Series a handle stands for.
View(h, hd) ==
    [Name |-> hd.Name, elements |-> SubSeq(h.mem[hd.at], 1, hd.len), t |-> hd.t,
     Err |-> hd.Err]

\* A copy that keeps the backing array of the receiver.
HeapCopyShared(h) == [h EXCEPT !.d = h.c, !.copied = TRUE, !.last = "Copy"]

\* d := c.Copy(): a new array of the receiver's length, filled by copy().
HeapCopy(h) ==
    [h EXCEPT !.mem[3 - h.c.at] = View(h, h.c).elements,
              !.d = [h.c EXCEPT !.at = 3 - h.c.at],
              !.copied = TRUE, !.last = "Copy"]

\* who.Set(ix, nv): the elements are written in the backing array; the
\* returned Series, which alone carries an error, is dropped.
HeapSet(h, who, ix, nv) ==
    LET hd == h[who]
        r == SeriesSet(View(h, hd), ix, nv)
    IN  [h EXCEPT !.mem[hd.at] = r.elements \o SubSeq(@, hd.len + 1, Len(@)),
                  !.last = who]

\* who.Append(values): append() writes behind the slice when the capacity
\* suffices and otherwise moves the elements to a new array, here with spare
\* unused places.
HeapAppend(h, who, values, spare) ==
    LET hd == h[who]
        old == h.mem[hd.at]
        news == SeriesNew(values, hd.t, hd.Name).elements
        k == Len(news)
        free == IF h.copied /\ h.c.at = h.d.at THEN 3 - hd.at ELSE hd.at
    IN  IF hd.Err # "" \/ k = 0 THEN [h EXCEPT !.last = who]
        ELSE IF hd.len + k <= Len(old)
             THEN [h EXCEPT !.mem[hd.at] = SubSeq(old, 1, hd.len) \o news \o
                                           SubSeq(old, hd.len + k + 1, Len(old)),
                            ![who].len = hd.len + k,
                            !.last = who]
        ELSE [h EXCEPT !.mem[free] = SubSeq(old, 1, hd.len) \o news \o
                                     [i \in 1..spare |-> Zero(hd.t)],
                       ![who].at = free,
                       ![who].len = hd.len + k,
                       !.last = who]

InitCopy ==
    /\ \E x \in Columns(MaxRows) \cup {Errored} :
           heap = [NoHeap EXCEPT !.mem[1] = x.elements,
                                 !.c = [Name |-> x.Name, t |-> x.t, Err |-> x.Err,
                                        at |-> 1, len |-> SeriesLen(x)]]
    /\ call = NoCall /\ ser = NoSeries
    /\ tbl = NoDF /\ namelist = <<>> /\ fixed = NoFix /\ cmp = NoCmp
    /\ ord = NoOrd /\ jn = NoJoin /\ grp = NoGrp

HeapStep(h) ==
    /\ \A i \in 1..2 : Len(h.mem[i]) <= MaxElems
    /\ heap' = h
    /\ UNCHANGED <<tbl, namelist, fixed, cmp, ser, ord, jn, call, grp>>

Held == IF heap.copied THEN {"c", "d"} ELSE {"c"}

CopyColumn == ~heap.copied /\ HeapStep(HeapCopy(heap))

CopyIndexes == {<<0>>, <<1, 0>>, <<MaxElems>>}

CopyValues ==
    {SeriesNew(StrSlice(q), t, "x") :
         t \in ColumnKinds, q \in {<<"2">>, <<"NaN">>, <<"2", "1">>}}

SetColumn ==
    \E who \in Held : \E ix \in {IxInts(q) : q \in CopyIndexes} : \E nv \in CopyValues :
        HeapStep(HeapSet(heap, who, ix, nv))

AppendColumn ==
    \E who \in Held : \E spare \in 0..1 :
        \E v \in {StrSlice(q) : q \in {<<>>, <<"2">>, <<"1", "NaN">>}} :
            HeapStep(HeapAppend(heap, who, v, spare))

NextCopy == CopyColumn \/ SetColumn \/ AppendColumn

SpecCopy == InitCopy /\ [][NextCopy]_vars

\* C20: c.Copy() has the name, kind, elements and missing flags of c, so that
\* Compare on the copy equals Compare on c; and the copy has a backing array of
\* its own: Set or Append on the copy leaves every element of c unchanged, and
\* Set or Append on c leaves every element of the copy unchanged.
CopyIsIndependent ==
    [][/\ (~heap.copied /\ heap'.copied) =>
              /\ View(heap', heap'.d) = View(heap', heap'.c)
              /\ \A cm \in Comparators : \A u \in ColumnInputs :
                     SeriesCompare(View(heap', heap'.d), cm, VStr(u))
                         = SeriesCompare(View(heap', heap'.c), cm, VStr(u))
       /\ (heap.copied /\ heap'.last = "d") =>
              View(heap', heap'.c) = View(heap, heap.c)
       /\ (heap.copied /\ heap'.last = "c") =>
              View(heap', heap'.d) = View(heap, heap.d)]_vars

\* The copy of a Column of two elements has been overwritten at its first
\* place and now differs there from the original.
CopyIsIndependentWitness ==
    /\ heap.copied
    /\ heap.last = "d"
    /\ heap.c.len = 2 /\ heap.d.len = 2
    /\ View(heap, heap.d).elements[1] # View(heap, heap.c).elements[1]
    /\ View(heap, heap.d).elements[2] = View(heap, heap.c).elements[2]

\* The float64 values of the non-missing elements of x.
PresentValues(x) == {ElemFloat(x.elements[i]) : i \in {j \in 1..SeriesLen(x) : ~IsNA(x.elements[j])}}

\* C29: on an integer, real or boolean Column with a non-missing element Max
\* returns the largest and Min the smallest of the non-missing values,
\* wherever the missing elements are.
MaxMinSkipMissing ==
    (/\ call.done
     /\ call.op \in {"Max", "Min"}
     /\ call.recv.t \in {IntT, Float, Bool}
     /\ PresentValues(call.recv) # {})
        => /\ call.f.c = "fin" /\ call.f.den = 2 /\ ~call.f.root
           /\ Fin(call.f.num) \in PresentValues(call.recv)
           /\ \A v \in PresentValues(call.recv) :
                  IF call.op = "Max" THEN ~FloatLess(Fin(call.f.num), v)
                  ELSE ~FloatLess(v, Fin(call.f.num))

\* The values of a rolling statistic over n positions with the given window:
\* a real-kind Column of length n whose first window - 1 values are missing.
LeadingMissing(r, n, window) ==
    /\ r.t = Float
    /\ Len(r.vals) = n
    /\ \A i \in 1..n : i < window => r.vals[i].c = "nan"

\* C21: over an error-free source Column of length n and any window size w the
\* rolling view produces n blocks, block i being an empty Column when i < w and
\* otherwise the sub-Column of the w source positions i-w .. i-1; Rolling(w).Mean()
\* and Rolling(w).StdDev() are real-kind Columns of length n whose first w-1
\* values are missing.
RollingBlocks ==
    (call.done /\ call.op = "Rolling" /\ call.recv.Err = "") =>
        LET s == call.recv
            n == SeriesLen(s)
            w == call.p
        IN  /\ Len(call.blocks) = n
            /\ \A i \in 1..n :
                   /\ call.blocks[i].Err = ""
                   /\ call.blocks[i].t = s.t
                   /\ call.blocks[i].elements =
                          IF i < w \/ w <= 0 THEN <<>>
                          ELSE [k \in 1..w |-> s.elements[i - w + k]]
            /\ LeadingMissing(call.mean, n, w)
            /\ LeadingMissing(call.sd, n, w)

\* Rolling(2) over the integer Column [1, 2]: the first mean is missing and
\* the second is 1.5.
RollingBlocksWitness ==
    /\ call.done /\ call.op = "Rolling" /\ call.p = 2
    /\ call.recv.t = IntT /\ SeriesLen(call.recv) = 2
    /\ SeriesLen(call.blocks[1]) = 0 /\ SeriesLen(call.blocks[2]) = 2
    /\ call.mean.vals[1].c = "nan"
    /\ call.mean.vals[2] = Stat("fin", 6, 4, FALSE)
    /\ call.recv.elements[1].e.n = 1 /\ call.recv.elements[2].e.n = 2

(***************************************************************************)
(* GroupBy and Aggregation.  A Go map from column names to values is a     *)
(* function over the set of its keys; the map of groups is a sequence of   *)
(* [key, df] in increasing key order, the order a range over it takes      *)
(* being a choice of the caller of Aggregation.                            *)
(***************************************************************************)
\* The index (1-based) of the last column of df named name: m[v] = val in
\* Maps lets a later column overwrite an earlier one of the same name.
LastNamed(df, name) ==
    CHOOSE k \in 1..df.ncols :
        /\ df.columns[k].Name = name
        /\ \A j \in (k + 1)..df.ncols : df.columns[j].Name # name

\* DataFrame.Maps: one map per row, from column name to Val().
DFMaps(df) ==
    [i \in 1..df.nrows |->
        [name \in Range(Names(df)) |->
            ElemVal(df.columns[LastNamed(df, name)].elements[i])]]

\* fmt.Sprintf with the verb GroupBy chooses for the value: %s for string
\* and bool, %d for int, %f for float64.
KeyText(v) ==
    CASE v.g = "string" -> v.v
      [] v.g = "bool" -> IF v.v THEN "%!s(bool=true)" ELSE "%!s(bool=false)"
      [] v.g = "int" -> Itoa(v.v)
      [] v.g = "float64" -> FormatFloat(v.v)

\* The key of a row without the "_" between the parts.
RECURSIVE GroupKeyGlued(_, _, _)
GroupKeyGlued(row, colnames, k) ==
    IF k = 0 THEN ""
    ELSE GroupKeyGlued(row, colnames, k - 1) \o KeyText(row[colnames[k]])

\* The key of a row over the first k key columns: the texts joined by "_".
RECURSIVE GroupKey(_, _, _)
GroupKey(row, colnames, k) ==
    IF k = 0 THEN ""
    ELSE GroupKey(row, colnames, k - 1) \o (IF k = 1 THEN "" ELSE "_")
             \o KeyText(row[colnames[k]])

\* fmt.Sprint of a map value.
Sprint(v) ==
    CASE v.g = "string" -> v.v
      [] v.g = "bool" -> IF v.v THEN "true" ELSE "false"
      [] v.g = "int" -> Itoa(v.v)
      [] v.g = "float64" ->
           IF v.v.c # "fin" THEN FormatFloat(v.v)
           ELSE LET a == IF v.v.h >= 0 THEN v.v.h ELSE 0 - v.v.h
                IN  (IF v.v.h < 0 THEN "-" ELSE "") \o ToString(a \div 2) \o
                    (IF a % 2 = 1 THEN ".5" ELSE "")
      [] OTHER -> "<nil>"

findType(arr) ==
    LET seen == {arr[i] : i \in 1..Len(arr)} \ {"", "NaN"}
        ints == {str \in seen : Atoi(str).ok}
        floats == {str \in seen \ ints : ParseFloat(str).ok}
        bools == (seen \ (ints \cup floats)) \cap {"true", "false"}
        strings == seen \ (ints \cup floats \cup bools)
    IN  IF strings # {} THEN String
        ELSE IF bools # {} THEN Bool
        ELSE IF floats # {} THEN Float
        ELSE IF ints # {} THEN IntT
        ELSE String

\* LoadRecords with a header row and the default options but for the types.
LoadRecords(headers, records, types) ==
    LET rawcol(i) == [j \in 1..Len(records) |->
                         IF records[j][i] \in {"NA", "NaN", "<nil>"} THEN "NaN"
                         ELSE records[j][i]]
        typ(i) == IF headers[i] \in DOMAIN types THEN types[headers[i]]
                  ELSE findType(rawcol(i))
    IN  Built([i \in 1..Len(headers) |->
                  SeriesNew(StrSlice(rawcol(i)), typ(i), headers[i])])

LoadMaps(maps, types) ==
    IF Len(maps) = 0 THEN ErrDF("load maps: empty array")
    ELSE LET colnames == SortStrings(UNION {DOMAIN maps[k] : k \in 1..Len(maps)})
         IN  LoadRecords(colnames,
                         [k \in 1..Len(maps) |->
                             [i \in 1..Len(colnames) |->
                                 IF colnames[i] \in DOMAIN maps[k]
                                 THEN Sprint(maps[k][colnames[i]]) ELSE ""]],
                         types)

\* The rows of maps whose key is key, in row order.
RECURSIVE RowsKeyed(_, _, _, _)
RowsKeyed(maps, keys, key, n) ==
    IF n = 0 THEN <<>>
    ELSE RowsKeyed(maps, keys, key, n - 1)
             \o (IF keys[n] = key THEN <<maps[n]>> ELSE <<>>)

ErrGroups(e) == [NoGroups EXCEPT !.nil = FALSE, !.Err = e]

\* GroupBy given the key text of each row.
Grouped(df, colnames, maps, keys) ==
    LET colTypes == [name \in Range(Names(df)) |-> df.columns[LastNamed(df, name)].t]
        sorted == SortStrings(Range(keys))
    IN  [nil |-> FALSE, Err |-> "", colnames |-> colnames,
         groups |-> [g \in 1..Len(sorted) |->
                        [key |-> sorted[g],
                         df |-> LoadMaps(RowsKeyed(maps, keys, sorted[g], Len(maps)),
                                         colTypes)]]]

\* GroupBy with the parts of a key glued without a separator.
GroupByGlued(df, colnames) ==
    LET maps == DFMaps(df)
    IN  IF Len(colnames) = 0 THEN NoGroups
        ELSE IF \E k \in 1..Len(colnames) : findInStringSlice(colnames[k], Names(df)) = -1
             THEN ErrGroups("GroupBy: column name not found")
        ELSE IF \E i \in 1..Len(maps) : \E k \in 1..Len(colnames) :
                    maps[i][colnames[k]].g = "nil"
             THEN ErrGroups("GroupBy: type not found")
        ELSE Grouped(df, colnames, maps,
                     [i \in 1..Len(maps) |-> GroupKeyGlued(maps[i], colnames, Len(colnames))])

GroupBy(df, colnames) ==
    LET maps == DFMaps(df)
    IN  IF Len(colnames) = 0 THEN NoGroups
        ELSE IF \E k \in 1..Len(colnames) : findInStringSlice(colnames[k], Names(df)) = -1
             THEN ErrGroups("GroupBy: column name not found")
        ELSE IF \E i \in 1..Len(maps) : \E k \in 1..Len(colnames) :
                    maps[i][colnames[k]].g = "nil"
             THEN ErrGroups("GroupBy: type not found")
        ELSE Grouped(df, colnames, maps,
                     [i \in 1..Len(maps) |-> GroupKey(maps[i], colnames, Len(colnames))])

\* The AggregationType constants, from Aggregation_MAX = 1 on.
Aggregation_MAX == 1
Aggregation_MIN == 2
Aggregation_MEAN == 3
Aggregation_MEDIAN == 4
Aggregation_STD == 5
Aggregation_SUM == 6
Aggregation_COUNT == 7

\* The text of an AggregationType under %s.
KindName(typ) ==
    CASE typ = Aggregation_MAX -> "Max"
      [] typ = Aggregation_MIN -> "Min"
      [] typ = Aggregation_MEAN -> "Mean"
      [] typ = Aggregation_MEDIAN -> "Median"
      [] typ = Aggregation_STD -> "StdDev"
      [] typ = Aggregation_SUM -> "Sum"
      [] typ = Aggregation_COUNT -> "Count"
      [] OTHER -> "?"

\* The float64 of a reduction, for the results that are multiples of 1/2.
StatFloat(st) ==
    IF st.c # "fin" THEN [c |-> st.c, h |-> 0]
    ELSE IF ~st.root THEN Fin((2 * st.num) \div st.den)
    ELSE Fin(CHOOSE h \in 0..(2 * st.num + 1) : h * h * st.den = 4 * st.num)

\* The reduction is a float64 the model holds.
StatExact(st) ==
    \/ st.c \in {"nan", "pinf", "ninf"}
    \/ st.c = "fin" /\ ~st.root /\ (2 * st.num) % st.den = 0
    \/ st.c = "fin" /\ st.root /\ \E h \in 0..(2 * st.num + 1) : h * h * st.den = 4 * st.num

\* df.Col(colname) of an error-free Table: the column, or a Series that
\* holds an error and no element storage.
DFCol(df, colname) ==
    LET idx == findInStringSlice(colname, Names(df))
    IN  IF idx < 0 THEN [found |-> FALSE, s |-> NoSeries]
        ELSE [found |-> TRUE, s |-> SeriesCopy(df.columns[idx + 1])]

\* The switch of Aggregation over the kind.
AggValue(typ, curSeries) ==
    CASE typ = Aggregation_MAX -> SeriesMax(curSeries)
      [] typ = Aggregation_MIN -> SeriesMin(curSeries)
      [] typ = Aggregation_MEAN -> SeriesMean(curSeries)
      [] typ = Aggregation_MEDIAN -> SeriesMedian(curSeries)
      [] typ = Aggregation_STD -> SeriesStdDev(curSeries)
      [] typ = Aggregation_SUM -> SeriesSum(curSeries)
      [] typ = Aggregation_COUNT -> StatOf(IntToFloat(SeriesLen(curSeries)))

AggName(typs, colnames, i) == colnames[i] \o "_" \o KindName(typs[i])

\* The reductions of Aggregation: stats[g][i] for group g and pair i, NaN
\* standing where the switch or Col stops the call before the reduction.
AggStats(gps, typs, colnames) ==
    [g \in 1..Len(gps.groups) |->
        [i \in 1..Len(colnames) |->
            IF /\ i <= Len(typs)
               /\ typs[i] \in Aggregation_MAX..Aggregation_COUNT
               /\ DFCol(gps.groups[g].df, colnames[i]).found
            THEN AggValue(typs[i], DFCol(gps.groups[g].df, colnames[i]).s)
            ELSE StatNaN]]

\* curMap of one group: the key-column values of its first row, then one
\* field per (kind, column), a later field overwriting an earlier one of
\* the same name.
CurMap(df, keycols, typs, colnames, stats) ==
    LET targetMap == DFMaps(df)[1]
        fields == {AggName(typs, colnames, i) : i \in 1..Len(colnames)}
        last(name) == CHOOSE i \in 1..Len(colnames) :
                          /\ AggName(typs, colnames, i) = name
                          /\ \A j \in (i + 1)..Len(colnames) :
                                 AggName(typs, colnames, j) # name
    IN  [name \in Range(keycols) \cup fields |->
            IF name \in fields THEN VFloat(StatFloat(stats[last(name)]))
            ELSE targetMap[name]]

\* colTypes, from the values of the first map; a value of another type
\* leaves its column to type detection.
AggTypes(first) ==
    [name \in {n \in DOMAIN first : first[n].g \in {"string", "int", "float64"}} |->
        CASE first[name].g = "string" -> String
          [] first[name].g = "int" -> IntT
          [] first[name].g = "float64" -> Float]

\* Every reduction Aggregation makes is a float64 the model holds.
AggExact(stats) ==
    \A g \in 1..Len(stats) : \A i \in 1..Len(stats[g]) : StatExact(stats[g][i])

\* gps.aggregation = LoadMaps(dfMaps, WithTypes(colTypes))
AggLoad(dfMaps) == LoadMaps(dfMaps, AggTypes(dfMaps[1]))

\* Aggregation given the reductions, the range over the map of groups
\* taking the groups in the given order: [fault, df].  Calling it through
\* the nil *Groups, reducing a column that Col did not find (a Series
\* without element storage) and reading dfMaps[0] of no groups are run-time
\* faults.
AggregationOf(gps, typs, colnames, order, stats) ==
    LET n == Len(gps.groups)
        bad == {i \in 1..Len(colnames) :
                    \/ typs[i] \notin Aggregation_MAX..Aggregation_COUNT
                    \/ ~DFCol(gps.groups[order[1]].df, colnames[i]).found}
        first == CHOOSE i \in bad : \A j \in bad : i <= j
    IN  IF gps.nil THEN [fault |-> TRUE, df |-> NoDF]
        ELSE IF gps.Err # ""
             THEN [fault |-> FALSE, df |-> ErrDF("Aggregation: input is nil")]
        ELSE IF Len(typs) # Len(colnames)
             THEN [fault |-> FALSE, df |-> ErrDF("Aggregation: len(typs) != len(colnames)")]
        ELSE IF n = 0 THEN [fault |-> TRUE, df |-> NoDF]
        ELSE IF bad # {}
             THEN IF typs[first] \notin Aggregation_MAX..Aggregation_COUNT
                  THEN [fault |-> FALSE, df |-> ErrDF("Aggregation: method not found")]
                  ELSE [fault |-> TRUE, df |-> NoDF]
        ELSE [fault |-> FALSE,
              df |-> AggLoad([g \in 1..n |->
                                 CurMap(gps.groups[order[g]].df, gps.colnames, typs,
                                        colnames, stats[order[g]])])]

\* gps.Aggregation(typs, colnames)
Aggregation(gps, typs, colnames, order) ==
    AggregationOf(gps, typs, colnames, order, AggStats(gps, typs, colnames))

(***************************************************************************)
(* SpecGroup: a Table of two text columns k and l and an integer column v, *)
(* grouped by a list of column names and then aggregated.                  *)
(***************************************************************************)
GroupRows ==
    {<<a, b, c>> : a \in {"a", "a_b", "NaN"}, b \in {"c", "b_c"}, c \in {"1", "2", "NaN"}}

GroupTable(rows) ==
    DFNew(<<SeriesNew(StrSlice([i \in 1..Len(rows) |-> rows[i][1]]), String, "k"),
            SeriesNew(StrSlice([i \in 1..Len(rows) |-> rows[i][2]]), String, "l"),
            SeriesNew(StrSlice([i \in 1..Len(rows) |-> rows[i][3]]), IntT, "v")>>)

GroupKeyLists == {<<>>, <<"k">>, <<"l">>, <<"k", "l">>, <<"v", "k">>, <<"zz">>}

InitGroup ==
    /\ \E rows \in SeqsUpTo(GroupRows, MaxRows) : tbl = GroupTable(rows)
    /\ namelist = <<>> /\ fixed = NoFix /\ cmp = NoCmp /\ ser = NoSeries
    /\ ord = NoOrd /\ jn = NoJoin /\ call = NoCall /\ heap = NoHeap /\ grp = NoGrp

\* gps := df.GroupBy(colnames...)
DoGroupBy ==
    /\ grp.op = ""
    /\ \E colnames \in GroupKeyLists :
           grp' = [grp EXCEPT !.op = "GroupBy", !.recv = tbl, !.keys = colnames,
                              !.gps = GroupBy(tbl, colnames)]
    /\ UNCHANGED <<tbl, namelist, fixed, cmp, ser, ord, jn, call, heap>>

\* The (kinds, colnames) pairs Aggregation is called with.
AggCalls ==
    <<[typs |-> <<Aggregation_SUM>>, cols |-> <<"v">>],
      [typs |-> <<Aggregation_COUNT, Aggregation_MAX>>, cols |-> <<"v", "v">>],
      [typs |-> <<Aggregation_MIN, Aggregation_MEDIAN>>, cols |-> <<"v", "v">>],
      [typs |-> <<Aggregation_MEAN, Aggregation_STD>>, cols |-> <<"v", "v">>],
      [typs |-> <<Aggregation_COUNT>>, cols |-> <<"k">>],
      [typs |-> <<Aggregation_COUNT>>, cols |-> <<>>],
      [typs |-> <<>>, cols |-> <<"v">>],
      [typs |-> <<8>>, cols |-> <<"v">>],
      [typs |-> <<Aggregation_SUM>>, cols |-> <<"zz">>]>>

\* The orders a range over n groups can take.
Perms(n) == {q \in [1..n -> 1..n] : \A i, j \in 1..n : i # j => q[i] # q[j]}

\* The call of Aggregation whose reductions are stats.
AggregatedAs(c, order, stats) ==
    /\ AggExact(stats)
    /\ LET r == AggregationOf(grp.gps, c.typs, c.cols, order, stats)
       IN  grp' = [grp EXCEPT !.op = "Aggregation", !.typs = c.typs, !.cols = c.cols,
                              !.out = r.df, !.fault = r.fault]

\* gps.Aggregation(typs, colnames)
DoAggregation ==
    /\ grp.op = "GroupBy"
    /\ \E a \in 1..Len(AggCalls) : \E order \in Perms(Len(grp.gps.groups)) :
           AggregatedAs(AggCalls[a], order,
                        AggStats(grp.gps, AggCalls[a].typs, AggCalls[a].cols))
    /\ UNCHANGED <<tbl, namelist, fixed, cmp, ser, ord, jn, call, heap>>

NextGroup == DoGroupBy \/ DoAggregation

SpecGroup == InitGroup /\ [][NextGroup]_vars

\* The sum of the row counts of the groups.
RECURSIVE GroupRowsSum(_, _)
GroupRowsSum(groups, n) ==
    IF n = 0 THEN 0 ELSE GroupRowsSum(groups, n - 1) + groups[n].df.nrows

\* Column name of df holds no missing value.
NoMissingIn(df, name) ==
    \A i \in 1..df.nrows : ~IsNA(df.columns[LastNamed(df, name)].elements[i])

\* GroupBy was called on an error-free Table with a non-empty list of
\* existing key columns whose values are non-missing.
GroupedByKeys ==
    /\ grp.op # ""
    /\ grp.recv.Err = ""
    /\ Len(grp.keys) > 0
    /\ \A k \in 1..Len(grp.keys) :
           /\ grp.keys[k] \in Range(Names(grp.recv))
           /\ NoMissingIn(grp.recv, grp.keys[k])

\* C22: for an error-free Table and a non-empty list of existing key columns
\* whose values are non-missing, GroupBy places every row in exactly one
\* group (the group row counts sum to Nrow) and all rows of one group have
\* equal values in every key column, text keys containing '_' included.
GroupByPartitions ==
    GroupedByKeys =>
        /\ ~grp.gps.nil /\ grp.gps.Err = ""
        /\ GroupRowsSum(grp.gps.groups, Len(grp.gps.groups)) = grp.recv.nrows
        /\ \A g \in 1..Len(grp.gps.groups) : \A k \in 1..Len(grp.keys) :
               LET df == grp.gps.groups[g].df
                   col == df.columns[LastNamed(df, grp.keys[k])]
               IN  \A i, j \in 1..df.nrows :
                       /\ ~IsNA(col.elements[i])
                       /\ ElemString(col.elements[i]) = ElemString(col.elements[j])

\* The cell of row r in the column of df named name.
Field(df, name, r) == df.columns[LastNamed(df, name)].elements[r]

\* Row r of out holds the key-column values of the group and, for every
\* (kind, colname) pair, the reduction of the group's column.
RowOfGroup(out, r, group, keycols, typs, colnames) ==
    /\ \A k \in 1..Len(keycols) :
           /\ keycols[k] \in Range(Names(out))
           /\ SameValue(Field(out, keycols[k], r), Field(group, keycols[k], 1))
    /\ \A i \in 1..Len(colnames) :
           /\ AggName(typs, colnames, i) \in Range(Names(out))
           /\ ElemFloat(Field(out, AggName(typs, colnames, i), r))
                  = StatFloat(AggValue(typs[i], DFCol(group, colnames[i]).s))

\* The sum of the integer values of the column of df named name.
RECURSIVE FieldSum(_, _, _)
FieldSum(df, name, n) ==
    IF n = 0 THEN 0 ELSE FieldSum(df, name, n - 1) + Trunc(ElemFloat(Field(df, name, n)))

\* Aggregation was called on the groups of a Table with kinds of the seven
\* and names of columns of the Table.
Aggregated ==
    /\ grp.op = "Aggregation"
    /\ ~grp.gps.nil /\ grp.gps.Err = ""
    /\ \A i \in 1..Len(grp.typs) : grp.typs[i] \in Aggregation_MAX..Aggregation_COUNT
    /\ \A i \in 1..Len(grp.cols) : grp.cols[i] \in Range(Names(grp.recv))

\* C23: Aggregation(kinds, colnames) returns an error-carrying Table when
\* kinds and colnames differ in length; otherwise it returns one row per
\* group, holding the group's key-column values and a field <colname>_<kind>
\* equal to that reduction of the group's column for every pair, and the
\* Count values over all groups sum to the Nrow of the grouped Table.
AggregationRows ==
    Aggregated =>
        /\ ~grp.fault
        /\ IF Len(grp.typs) # Len(grp.cols) THEN grp.out.Err # ""
           ELSE /\ grp.out.Err = ""
                /\ grp.out.nrows = Len(grp.gps.groups)
                /\ \A g \in 1..Len(grp.gps.groups) : \E r \in 1..grp.out.nrows :
                       RowOfGroup(grp.out, r, grp.gps.groups[g].df, grp.gps.colnames,
                                  grp.typs, grp.cols)
                /\ \A i \in 1..Len(grp.cols) :
                       grp.typs[i] = Aggregation_COUNT =>
                           FieldSum(grp.out, AggName(grp.typs, grp.cols, i), grp.out.nrows)
                               = grp.recv.nrows

(***************************************************************************)
(* Rapply.                                                                 *)
(***************************************************************************)
\* detectType with the real kind ranked above the boolean kind.
detectTypeRealFirst(types) ==
    IF String \in types THEN String
    ELSE IF Float \in types THEN Float
    ELSE IF Bool \in types THEN Bool
    ELSE IntT

\* detectType of Rapply over the kinds present; the caller never hands it
\* an empty set, for which it stops with a fault.
detectType(types) ==
    IF String \in types THEN String
    ELSE IF Bool \in types THEN Bool
    ELSE IF Float \in types THEN Float
    ELSE IntT

\* The caller's function of Rapply: the row itself, the row with an error,
\* the row without its missing elements, or the row converted to kind a
\* when its first element reads "NaN" and to kind b otherwise.
RowF(f, row) ==
    CASE f.fn = "Copy" -> row
      [] f.fn = "Failed" -> [row EXCEPT !.Err = "failed"]
      [] f.fn = "Present" -> SeriesSubset(row, IxInts(IdxWhere(row, FALSE, SeriesLen(row))))
      [] f.fn = "Kinds" ->
           SeriesNew(VSeries(row),
                     IF ElemString(row.elements[1]) = "NaN" THEN f.a ELSE f.b, "")

\* row := series.New(nil, rowType, "").Empty(), then row.Append(col.Elem(i))
\* for every column.
RapplyRow(df, i, rowType) ==
    [Name |-> "",
     elements |-> [k \in 1..df.ncols |->
                      ElemSet(Zero(rowType), VElem(df.columns[k].elements[i]))],
     t |-> rowType, Err |-> ""]

\* Column j of the result: its kind detected over the elements of the rows,
\* every element appended to an empty Series of that kind.
RapplyColumn(outs, j) ==
    LET colType == detectType({outs[i].elements[j].t : i \in 1..Len(outs)})
    IN  [Name |-> "",
         elements |-> [i \in 1..Len(outs) |->
                          ElemSet(Zero(colType), VElem(outs[i].elements[j]))],
         t |-> colType, Err |-> ""]

\* Rapply from the outputs of f on: the check of the errors and lengths of
\* the outputs, then the columns.  With no row, rowlen stays -1 and
\* make([]series.Series, rowlen) is a run-time fault.
RapplyOuts(df, rows, outs) ==
    LET bad == {i \in 1..df.nrows :
                    \/ outs[i].Err # ""
                    \/ i > 1 /\ SeriesLen(outs[i]) # SeriesLen(outs[i - 1])}
        first == CHOOSE i \in bad : \A j \in bad : i <= j
    IN  IF df.nrows = 0 THEN [fault |-> TRUE, df |-> NoDF, rows |-> <<>>]
        ELSE IF bad # {}
             THEN [fault |-> FALSE,
                   df |-> ErrDF(IF outs[first].Err # "" THEN "error applying function on row"
                                ELSE "error applying function: rows have different lengths"),
                   rows |-> SubSeq(rows, 1, first)]
        ELSE [fault |-> FALSE,
              df |-> Built([j \in 1..SeriesLen(outs[1]) |-> RapplyColumn(outs, j)]),
              rows |-> rows]

\* Rapply from the rows on: f applied to every row.
RapplyRows(df, f, rows) ==
    RapplyOuts(df, rows, [i \in 1..df.nrows |-> RowF(f, rows[i])])

\* df.Rapply(f): [fault, df, rows], rows being the row Series handed to f.
DFRapply(df, f) ==
    IF df.Err # "" THEN [fault |-> FALSE, df |-> df, rows |-> <<>>]
    ELSE RapplyRows(df, f,
                    [i \in 1..df.nrows |->
                        RapplyRow(df, i, detectType({df.columns[k].t : k \in 1..df.ncols}))])

(***************************************************************************)
(* SpecRapply: Rapply over the Tables of at most MaxCols columns of the    *)
(* four kinds and at most MaxRows rows, with missing cells in the first    *)
(* column.                                                                 *)
(***************************************************************************)
\* The value of a non-missing cell of each kind.
CellText(t) ==
    CASE t = String -> "a" [] t = IntT -> "1" [] t = Float -> "1.5" [] t = Bool -> "true"

\* The Table whose column k is of kind kinds[k]; the cells of the first
\* column are missing in the rows of mask, every other cell is non-missing.
RapplyTable(kinds, mask) ==
    DFNew([k \in 1..Len(kinds) |->
              SeriesNew(StrSlice([i \in 1..Len(mask) |->
                                     IF k = 1 /\ mask[i] THEN "NaN" ELSE CellText(kinds[k])]),
                        kinds[k], "x")])

RapplyFuncs ==
    {[fn |-> "Copy", a |-> "", b |-> ""], [fn |-> "Failed", a |-> "", b |-> ""],
     [fn |-> "Present", a |-> "", b |-> ""]}
    \cup {[fn |-> "Kinds", a |-> p[1], b |-> p[2]]
             : p \in {<<IntT, Float>>, <<Float, Bool>>, <<Bool, String>>, <<IntT, IntT>>}}

InitRapply ==
    /\ \E c \in 1..MaxCols : \E n \in 0..MaxRows :
           \E kinds \in [1..c -> Types] : \E mask \in [1..n -> BOOLEAN] :
               tbl = RapplyTable(kinds, mask)
    /\ namelist = <<>> /\ fixed = NoFix /\ cmp = NoCmp /\ ser = NoSeries
    /\ ord = NoOrd /\ jn = NoJoin /\ call = NoCall /\ heap = NoHeap /\ grp = NoGrp

\* df.Rapply(f)
Rapply ==
    /\ grp.op = ""
    /\ \E f \in RapplyFuncs :
           LET r == DFRapply(tbl, f)
           IN  grp' = [grp EXCEPT !.op = "Rapply", !.recv = tbl, !.f = f, !.out = r.df,
                                  !.fault = r.fault, !.rows = r.rows]
    /\ UNCHANGED <<tbl, namelist, fixed, cmp, ser, ord, jn, call, heap>>

NextRapply == Rapply

SpecRapply == InitRapply /\ [][NextRapply]_vars

\* The first kind present in the order text, boolean, real, integer.
FirstKind(kinds) ==
    CHOOSE t \in kinds :
        \A u \in kinds : \E p, q \in 1..4 :
            /\ <<String, Bool, Float, IntT>>[p] = t
            /\ <<String, Bool, Float, IntT>>[q] = u
            /\ p <= q

\* C24: Rapply builds each row as a Column of the common kind chosen from
\* the Table's column kinds by the priority text > boolean > real > integer,
\* every element coerced to that kind; it returns an error-carrying Table when
\* f returns outputs of different lengths for two rows; and the kind of each
\* output column is chosen by the same priority over the kinds of the
\* elements f returned for it.
RapplyKinds ==
    (grp.op = "Rapply" /\ grp.recv.Err = "") =>
        LET df == grp.recv
            rowType == FirstKind({df.columns[k].t : k \in 1..df.ncols})
            outs == [i \in 1..df.nrows |-> RowF(grp.f, RapplyRow(df, i, rowType))]
        IN  /\ \A i \in 1..Len(grp.rows) :
                   /\ grp.rows[i].t = rowType
                   /\ SeriesLen(grp.rows[i]) = df.ncols
                   /\ \A k \in 1..df.ncols :
                          /\ grp.rows[i].elements[k].t = rowType
                          /\ grp.rows[i].elements[k]
                                 = ElemSet(Zero(rowType), VElem(df.columns[k].elements[i]))
            /\ (\E i, j \in 1..df.nrows : SeriesLen(outs[i]) # SeriesLen(outs[j]))
                   => ~grp.fault /\ grp.out.Err # ""
            /\ (~grp.fault /\ grp.out.Err = "") =>
                   /\ Len(grp.rows) = df.nrows
                   /\ \A j \in 1..grp.out.ncols :
                          grp.out.columns[j].t
                              = FirstKind({outs[i].elements[j].t : i \in 1..df.nrows})

\* Rows of an integer and a real column are built as real Columns; f turns
\* one row into an integer and the other into a real Column, and the output
\* columns are real.
RapplyKindsWitness ==
    /\ grp.op = "Rapply" /\ grp.recv.nrows = 2 /\ grp.recv.ncols = 2
    /\ grp.recv.columns[1].t = IntT /\ grp.recv.columns[2].t = Float
    /\ grp.f = [fn |-> "Kinds", a |-> IntT, b |-> Float]
    /\ IsNA(grp.recv.columns[1].elements[1]) /\ ~IsNA(grp.recv.columns[1].elements[2])
    /\ grp.rows[1].t = Float /\ grp.rows[2].t = Float
    /\ grp.out.Err = "" /\ grp.out.ncols = 2
    /\ grp.out.columns[1].t = Float /\ grp.out.columns[2].t = Float

\* f drops the missing elements, the rows it returns differ in length and
\* the result carries an error.
RapplyLengthsWitness ==
    /\ grp.op = "Rapply" /\ grp.recv.nrows = 2 /\ grp.f.fn = "Present"
    /\ grp.recv.columns[1].t = IntT
    /\ IsNA(grp.recv.columns[1].elements[1]) /\ ~IsNA(grp.recv.columns[1].elements[2])
    /\ grp.out.Err # "" /\ ~grp.fault

(***************************************************************************)
(* Arrange.  A sort key is [Colname, Reverse]; row indexes are 0-based.    *)
(***************************************************************************)
\* The loop of Arrange from key i down to the first key: the column of the
\* key is read in the order suborder, ordered, and origIdx is rearranged by
\* the order found, which is the suborder of the next pass.
RECURSIVE ArrangeLoop(_, _, _, _, _)
ArrangeLoop(df, order, i, suborder, origIdx) ==
    IF i = 0 THEN origIdx
    ELSE LET idx == colIndex(df, order[i].Colname)
             nextSeries == SeriesSubset(df.columns[idx + 1], IxInts(suborder))
             newidx == Order(nextSeries, order[i].Reverse)
         IN  ArrangeLoop(df, order, i - 1, newidx,
                         [k \in 1..Len(newidx) |-> origIdx[newidx[k] + 1]])

\* origIdx at the end of the loop of Arrange.
ArrangeIdx(df, order) ==
    ArrangeLoop(df, order, Len(order), [i \in 1..df.nrows |-> i - 1],
                [i \in 1..df.nrows |-> i - 1])

\* df.Arrange(order...): [df, perm], perm being origIdx.
DFArrange(df, order) ==
    IF df.Err # "" THEN [df |-> df, perm |-> <<>>]
    ELSE IF Len(order) = 0 THEN [df |-> ErrDF("rename: no arguments"), perm |-> <<>>]
    ELSE IF \E i \in 1..Len(order) : colIndex(df, order[i].Colname) = -1
         THEN [df |-> ErrDF("colname does not exist"), perm |-> <<>>]
    ELSE LET origIdx == ArrangeIdx(df, order)
         IN  [df |-> DFSubset(df, IxInts(origIdx)), perm |-> origIdx]

(***************************************************************************)
(* SpecArrange: Arrange of the Tables of two integer columns a and b by    *)
(* every list of at most MaxKeys sort keys.                                *)
(***************************************************************************)
ArrangeTable(rows) ==
    DFNew([k \in 1..2 |->
              SeriesNew(StrSlice([i \in 1..Len(rows) |-> rows[i][k]]), IntT,
                        <<"a", "b">>[k])])

SortKeys == {[Colname |-> c, Reverse |-> r] : c \in {"a", "b"}, r \in BOOLEAN}

InitArrange ==
    /\ \E rows \in SeqsUpTo({"1", "2", "NaN"} \X {"1", "2", "NaN"}, MaxRows) :
           tbl = ArrangeTable(rows)
    /\ namelist = <<>> /\ fixed = NoFix /\ cmp = NoCmp /\ ser = NoSeries
    /\ ord = NoOrd /\ jn = NoJoin /\ call = NoCall /\ heap = NoHeap /\ grp = NoGrp

\* The call df.Arrange(order...).
Arranged(order) ==
    LET r == DFArrange(tbl, order)
    IN  grp' = [grp EXCEPT !.op = "Arrange", !.recv = tbl, !.order = order,
                           !.out = r.df, !.perm = r.perm]

Arrange ==
    /\ grp.op = ""
    /\ \E order \in SeqsUpTo(SortKeys, MaxKeys)
                        \cup {<<[Colname |-> "zz", Reverse |-> FALSE]>>} :
           Arranged(order)
    /\ UNCHANGED <<tbl, namelist, fixed, cmp, ser, ord, jn, call, heap>>

NextArrange == Arrange

SpecArrange == InitArrange /\ [][NextArrange]_vars

\* Row p goes strictly before row q by the key: a non-missing value before
\* a missing one, and non-missing values by the direction of the key.
KeyBefore(df, key, p, q) ==
    LET x == df.columns[colIndex(df, key.Colname) + 1].elements[p + 1]
        y == df.columns[colIndex(df, key.Colname) + 1].elements[q + 1]
    IN  /\ ~IsNA(x)
        /\ \/ IsNA(y)
           \/ IF key.Reverse THEN ElemGreater(x, y) ELSE ElemLess(x, y)

\* Row p goes strictly before row q by the list of keys: by the first key
\* that tells them apart.
RowBefore(df, order, p, q) ==
    \E k \in 1..Len(order) :
        /\ KeyBefore(df, order[k], p, q)
        /\ \A j \in 1..(k - 1) :
               ~KeyBefore(df, order[j], p, q) /\ ~KeyBefore(df, order[j], q, p)

\* C25: for an error-free Table and a non-empty list of sort keys of any
\* length, each ascending or descending, Arrange returns a permutation of the
\* rows sorted by the first key, rows equal on it by the second, and so on,
\* rows equal on all keys keeping their original order and rows missing a
\* key value placed after the non-missing ones for that key.
ArrangeSorts ==
    (/\ grp.op = "Arrange" /\ grp.recv.Err = "" /\ Len(grp.order) > 0
     /\ \A i \in 1..Len(grp.order) : grp.order[i].Colname \in Range(Names(grp.recv)))
        => LET n == grp.recv.nrows
           IN  /\ grp.out.Err = ""
               /\ Len(grp.perm) = n
               /\ \A r \in 0..(n - 1) : \E i \in 1..n : grp.perm[i] = r
               /\ grp.out = DFSubset(grp.recv, IxInts(grp.perm))
               /\ \A i, j \in 1..n :
                      i < j =>
                          /\ ~RowBefore(grp.recv, grp.order, grp.perm[j], grp.perm[i])
                          /\ ~RowBefore(grp.recv, grp.order, grp.perm[i], grp.perm[j])
                                 => grp.perm[i] < grp.perm[j]

\* C26: a Column.Set call that returns an error leaves every element of the
\* receiver Column unchanged: no index processed before the failing one has
\* been overwritten.  Table.Set calls Column.Set on each column in turn.
SetErrorKeepsReceiver ==
    (call.done /\ call.op = "Set" /\ call.out.Err # "")
        => ser.elements = call.recv.elements

(***************************************************************************)
(* SpecCoerce: Set with an element argument, for every pair of elements.   *)
(***************************************************************************)
\* cmp.b.Set(cmp.a)
ElementSet ==
    /\ ~cmp.done
    /\ cmp' = [cmp EXCEPT !.b = ElemSet(cmp.b, VElem(cmp.a)), !.c = "Set", !.done = TRUE]
    /\ UNCHANGED <<tbl, namelist, fixed, ser, ord, jn, call, heap, grp>>

NextCoerce == ElementSet

SpecCoerce == InitCmp /\ [][NextCoerce]_vars

\* C28: Set with a missing element of any kind as its argument leaves an
\* element of any kind missing, the text kind included.
MissingStaysMissing ==
    (cmp.done /\ cmp.c = "Set" /\ IsNA(cmp.a)) => IsNA(cmp.b)

(***************************************************************************)
(* SpecAlias: the caller's Columns, the Table t = New(cols...) and the     *)
(* Table t2 = t.Mutate(s), over explicit backing arrays.  heap.mem is the  *)
(* sequence of the backing arrays allocated so far; a Table holds the      *)
(* handles of its columns.                                                 *)
(***************************************************************************)
\* The Series a handle stands for in mem.
SeriesAt(mem, hd) ==
    [Name |-> hd.Name, elements |-> SubSeq(mem[hd.at], 1, hd.len), t |-> hd.t,
     Err |-> hd.Err]

\* The Table a Table of handles stands for in mem.
TableAt(mem, T) ==
    [columns |-> [i \in 1..Len(T.columns) |-> SeriesAt(mem, T.columns[i])],
     ncols |-> T.ncols, nrows |-> T.nrows, Err |-> T.Err]

\* The handle of the Series x whose elements are in the backing array at.
Handle(x, at) ==
    [Name |-> x.Name, t |-> x.t, Err |-> x.Err, at |-> at, len |-> SeriesLen(x)]

\* New(se...): columns[i] = s.Copy() puts the elements of every Series in
\* a new backing array; the dimensions are checked and the names fixed.
HeapNew(mem, hs) ==
    LET d == DFNew([i \in 1..Len(hs) |-> SeriesAt(mem, hs[i])])
    IN  [mem |-> mem \o [i \in 1..Len(hs) |-> SeriesAt(mem, hs[i]).elements],
         t |-> IF d.Err # "" THEN d
               ELSE [d EXCEPT !.columns =
                         [i \in 1..Len(hs) |-> Handle(d.columns[i], Len(mem) + i)]]]

\* df.Mutate(s): df = df.Copy(), then columns[idx] = s or append(columns, s)
\* stores the Series s itself, slice header and backing array included.
HeapMutate(mem, T, s) ==
    IF T.Err # "" THEN [mem |-> mem, t |-> T]
    ELSE IF s.len # T.nrows THEN [mem |-> mem, t |-> ErrDF("mutate: dimensions mismatch")]
    ELSE LET c == HeapNew(mem, T.columns)
             idx == findInStringSlice(s.Name, [i \in 1..c.t.ncols |-> c.t.columns[i].Name])
             hs == IF idx # -1 THEN [c.t.columns EXCEPT ![idx + 1] = s]
                   ELSE Append(c.t.columns, s)
             d == Built([i \in 1..Len(hs) |-> SeriesAt(c.mem, hs[i])])
         IN  [mem |-> c.mem,
              t |-> IF d.Err # "" THEN d
                    ELSE [d EXCEPT !.columns =
                              [i \in 1..Len(hs) |-> [hs[i] EXCEPT !.Name = d.columns[i].Name]]]]

\* hd.Set(ix, nv): the elements are written in the backing array of hd.
HeapSetAt(mem, hd, ix, nv) ==
    [mem EXCEPT ![hd.at] = SeriesSet(SeriesAt(mem, hd), ix, nv).elements
                               \o SubSeq(@, hd.len + 1, Len(@))]

AliasColumns(n, name) ==
    {SeriesNew(StrSlice(q), IntT, name) : q \in [1..n -> {"1", "NaN"}]}

InitAlias ==
    /\ \E n \in 0..MaxRows :
           \E a \in AliasColumns(n, "a"),
              s \in AliasColumns(n, "a") \cup AliasColumns(n, "z") \cup AliasColumns(n + 1, "z") :
               heap = [mem |-> <<a.elements, s.elements>>, cols |-> <<Handle(a, 1)>>,
                       s |-> Handle(s, 2), t |-> NoDF, t2 |-> NoDF, stage |-> "init",
                       sets |-> 0]
    /\ tbl = NoDF /\ namelist = <<>> /\ fixed = NoFix /\ cmp = NoCmp /\ ser = NoSeries
    /\ ord = NoOrd /\ jn = NoJoin /\ call = NoCall /\ grp = NoGrp

\* t := New(cols...)
AliasNew ==
    /\ heap.stage = "init"
    /\ LET r == HeapNew(heap.mem, heap.cols)
       IN  heap' = [heap EXCEPT !.mem = r.mem, !.t = r.t, !.stage = "new"]
    /\ UNCHANGED <<tbl, namelist, fixed, cmp, ser, ord, jn, call, grp>>

\* t2 := t.Mutate(s)
AliasMutate ==
    /\ heap.stage = "new"
    /\ LET r == HeapMutate(heap.mem, heap.t, heap.s)
       IN  heap' = [heap EXCEPT !.mem = r.mem, !.t2 = r.t, !.stage = "mutated"]
    /\ UNCHANGED <<tbl, namelist, fixed, cmp, ser, ord, jn, call, grp>>

\* cols[0].Set(i, 2) or s.Set(i, 2) by the caller, once.
AliasSet ==
    /\ heap.stage \in {"new", "mutated"}
    /\ heap.sets = 0
    /\ \E hd \in {heap.cols[1], heap.s} : \E i \in 0..(MaxRows - 1) :
           heap' = [heap EXCEPT !.mem = HeapSetAt(heap.mem, hd, IxInt(i),
                                                  SeriesNew(StrSlice(<<"2">>), IntT, "")),
                                !.sets = 1]
    /\ UNCHANGED <<tbl, namelist, fixed, cmp, ser, ord, jn, call, grp>>

NextAlias == AliasNew \/ AliasMutate \/ AliasSet

SpecAlias == InitAlias /\ [][NextAlias]_vars

\* C27: a Table shares no element storage with a Column of the caller:
\* after t = New(cols...) or t2 = t.Mutate(s) an in-place Set on the caller's
\* Column leaves every cell of t and of t2 unchanged, and Mutate leaves the
\* receiver t unchanged.
NoSharedStorage ==
    [][/\ heap'.sets # heap.sets =>
              /\ TableAt(heap'.mem, heap'.t) = TableAt(heap.mem, heap.t)
              /\ TableAt(heap'.mem, heap'.t2) = TableAt(heap.mem, heap.t2)
       /\ heap'.stage = "mutated" /\ heap.stage = "new" =>
              TableAt(heap'.mem, heap'.t) = TableAt(heap.mem, heap.t)]_vars

\* C30: a Table operation applied to an error-free Table of zero rows
\* returns a Table or an error-carrying result and never faults; Rapply, and
\* GroupBy followed by Aggregation, are the operations recorded in grp.
ZeroRowsNeverFault ==
    (grp.op # "" /\ grp.recv.Err = "" /\ grp.recv.ncols > 0 /\ grp.recv.nrows = 0)
        => ~grp.fault

====
